---- MODULE Spec2Model ----
(***************************************************************************)
(* Model of the GlyphGenerator editor (examples/GlyphGenerator/main.cpp):  *)
(* the Canvas controller (shape list, selection, pointer gestures, edit    *)
(* operations) and the MainWin host (style panel, snapshot history).       *)
(*                                                                         *)
(* Normalized coordinates are doubles in the program.  Every value the     *)
(* program stores is a pixel offset divided by the inset width or height   *)
(* (or a third of such a value after a triangle flip), so a normalized x   *)
(* is held here as the integer n with x = n / (Sub * InsetW) and a         *)
(* normalized y as n with y = n / (Sub * InsetH).  A circle radius is      *)
(* sqrt(dx^2 + dy^2) of two such values and is held as the pair <<dx,dy>>. *)
(***************************************************************************)
EXTENDS Integers, Sequences, FiniteSets, TLC

\* ------------------------------------------------------------------ bounds
\* Number of operations (events and commands) in a run.
MaxSteps == 5

\* ------------------------------------------------------- program constants
InsetX == 50
InsetY == 50
InsetW == 400
InsetH == 300
Grid == 20
HandlePx == 6
Sub == 3

Pt(a, b) == [x |-> a, y |-> b]

\* Pointer pixels delivered by the event substrate (screen coordinates).
Pixels == { Pt(40, 40), Pt(70, 70), Pt(108, 112) }

Kinds == {"Rect", "Circle", "Line", "Triangle"}
Tools == {"Cursor"} \cup Kinds

\* ------------------------------------------------------------ arithmetic
Min(a, b) == IF a < b THEN a ELSE b
Max(a, b) == IF a > b THEN a ELSE b
Abs(a) == IF a < 0 THEN -a ELSE a

\* C++ integer division and double -> int conversion truncate toward zero.
Trunc(a, b) == IF a >= 0 THEN a \div b ELSE -((-a) \div b)

RECURSIVE GCD(_, _)
GCD(a, b) == IF b = 0 THEN a ELSE GCD(b, a % b)

\* Largest k >= 0 with k * k <= n (n >= 0), by bisection on [lo, hi).
RECURSIVE ISqrtIn(_, _, _)
ISqrtIn(n, lo, hi) ==
    IF hi - lo <= 1 THEN lo
    ELSE LET mid == (lo + hi) \div 2
         IN  IF mid * mid <= n THEN ISqrtIn(n, mid, hi) ELSE ISqrtIn(n, lo, mid)

ISqrt(n) == ISqrtIn(n, 0, 46341)

\* ------------------------------------------------------------------ Rect
\* Upp::Rect is {left, top, right, bottom}; Contains is half-open.
MkRect(l, t, r, b) == [left |-> l, top |-> t, right |-> r, bottom |-> b]
RectC(x0, y0, cx, cy) == MkRect(x0, y0, x0 + cx, y0 + cy)
Inflated(r, d) == MkRect(r.left - d, r.top - d, r.right + d, r.bottom + d)
Contains(r, p) ==
    p.x >= r.left /\ p.x < r.right /\ p.y >= r.top /\ p.y < r.bottom

GetInsetRect == RectC(InsetX, InsetY, InsetW, InsetH)

\* ----------------------------------------------------- coordinate mapper
\* X(r, nx) = r.left + int(r.Width() * nx + 0.5), nx = n / (Sub * Width).
X(n) == InsetX + Trunc(2 * n + Sub, 2 * Sub)
Y(n) == InsetY + Trunc(2 * n + Sub, 2 * Sub)

\* NX(r, px) = (px - r.left) / double(max(1, r.Width()))
NX(px) == Sub * (px - InsetX)
NY(py) == Sub * (py - InsetY)

\* Rr(r, nr) = int(min(Width, Height) * nr + 0.5) for nr = sqrt of
\* (dx/(Sub W))^2 + (dy/(Sub H))^2: the largest n with
\* (2n - 1)^2 * (Sub W H)^2 <= 4 m^2 (dx^2 H^2 + dy^2 W^2), all divided by
\* gcd(W, H)^4 to stay inside 32-bit arithmetic.
Rr(r) ==
    LET g  == GCD(InsetW, InsetH)
        wg == InsetW \div g
        hg == InsetH \div g
        mg == Min(wg, hg)
        t  == 4 * mg * mg * (r[1] * r[1] * hg * hg + r[2] * r[2] * wg * wg)
        d  == Sub * Sub * wg * wg * hg * hg
    IN  (ISqrt(t \div d) + 1) \div 2

\* Snap1D: origin + ((v - origin + step/2) / step) * step
Snap1D(v, origin, step) == origin + Trunc(v - origin + step \div 2, step) * step
SnapPt(p) == Pt(Snap1D(p.x, InsetX, Grid), Snap1D(p.y, InsetY, Grid))

\* The mapper over any work area r: a normalized coordinate is the exact
\* fraction <<num, den>>, den > 0.
Width(r) == r.right - r.left
Height(r) == r.bottom - r.top
NXOf(r, px) == << px - r.left, Max(1, Width(r)) >>
NYOf(r, py) == << py - r.top, Max(1, Height(r)) >>
XOf(r, nx) == r.left + Trunc(2 * Width(r) * nx[1] + nx[2], 2 * nx[2])
YOf(r, ny) == r.top + Trunc(2 * Height(r) * ny[1] + ny[2], 2 * ny[2])

\* ----------------------------------------------------------------- Style
DefaultStyle ==
    [ fill |-> <<163, 201, 168>>, stroke |-> <<30, 53, 47>>, strokeWidth |-> 2,
      evenOdd |-> FALSE, dash |-> "", enableFill |-> TRUE,
      enableStroke |-> TRUE, opacity |-> 100,
      outlineEnable |-> FALSE, outlineColor |-> <<255, 0, 0>>,
      outlineWidth |-> 0, outlineOutside |-> TRUE ]

\* opacity is held in percent; int(st.opacity * 100) loses one for the
\* percentages whose double product falls just below the integer.
OpacityToSlider(pct) == IF pct \in {29, 57, 58} THEN pct - 1 ELSE pct

\* MainWin::LoadUIFrom: push a Style into the panel widgets.
LoadUIFrom(u, st) ==
    [ optFill |-> st.enableFill, fillClr |-> st.fill,
      optStroke |-> st.enableStroke, strokeClr |-> st.stroke,
      spWidth |-> st.strokeWidth, optEvenOdd |-> st.evenOdd,
      sOpacity |-> OpacityToSlider(st.opacity),
      dlDash |-> IF st.dash = "" THEN 0
                 ELSE IF st.dash = "5 5" THEN 1
                 ELSE IF st.dash = "2 4" THEN 2 ELSE 3,
      edDashCustom |-> IF st.dash \in {"", "5 5", "2 4"}
                       THEN u.edDashCustom ELSE st.dash,
      optOutline |-> (st.outlineEnable /\ st.outlineWidth > 0),
      outlineClr |-> st.outlineColor,
      spOutlineW |-> Max(st.outlineWidth, 0) ]

\* The widgets as the constructor leaves them before LoadUIFrom.
InitialUI ==
    [ optFill |-> TRUE, fillClr |-> <<163, 201, 168>>,
      optStroke |-> TRUE, strokeClr |-> <<30, 53, 47>>,
      spWidth |-> 2, optEvenOdd |-> FALSE, sOpacity |-> 100,
      dlDash |-> 0, edDashCustom |-> "",
      optOutline |-> FALSE, outlineClr |-> <<255, 0, 0>>, spOutlineW |-> 0 ]

\* The Style that ApplyStyleToSelectionOrDefaults reads from the widgets.
StyleFromUI(u) ==
    [ fill |-> u.fillClr, stroke |-> u.strokeClr, strokeWidth |-> u.spWidth,
      evenOdd |-> u.optEvenOdd,
      dash |-> CASE u.dlDash = 0 -> ""
                 [] u.dlDash = 1 -> "5 5"
                 [] u.dlDash = 2 -> "2 4"
                 [] OTHER -> u.edDashCustom,
      enableFill |-> u.optFill, enableStroke |-> u.optStroke,
      opacity |-> u.sOpacity,
      outlineEnable |-> u.optOutline, outlineColor |-> u.outlineClr,
      outlineWidth |-> u.spOutlineW, outlineOutside |-> TRUE ]

\* ----------------------------------------------------------------- Shape
NewShape(k, st, i) ==
    [ type |-> k, style |-> st, x |-> 0, y |-> 0, w |-> 0, h |-> 0,
      cx |-> 0, cy |-> 0, r |-> <<0, 0>>,
      p1 |-> Pt(0, 0), p2 |-> Pt(0, 0), p3 |-> Pt(0, 0), id |-> i ]

\* Pixel points of the normalized points of a shape.
PxPt(q) == Pt(X(q.x), Y(q.y))
RectPx(s) == MkRect(X(s.x), Y(s.y), X(s.x + s.w), Y(s.y + s.h))

\* ----------------------------------------------------------- hit testing
Valid(sh, sel) == sel >= 0 /\ sel < Len(sh)

\* The pick box LeftDown builds for shape s (cursor tool).
PickBox(s) ==
    CASE s.type = "Rect" -> RectPx(s)
      [] s.type = "Circle" ->
            RectC(X(s.cx) - Rr(s.r), Y(s.cy) - Rr(s.r), 2 * Rr(s.r), 2 * Rr(s.r))
      [] s.type = "Line" ->
            LET a == PxPt(s.p1)
                b == PxPt(s.p2)
            IN  Inflated(MkRect(Min(a.x, b.x), Min(a.y, b.y),
                                Max(a.x, b.x), Max(a.y, b.y)), 6)
      [] OTHER ->
            LET a == PxPt(s.p1)
                b == PxPt(s.p2)
                c == PxPt(s.p3)
            IN  Inflated(MkRect(Min(Min(a.x, b.x), c.x), Min(Min(a.y, b.y), c.y),
                                Max(Max(a.x, b.x), c.x), Max(Max(a.y, b.y), c.y)), 6)

\* for(i = count-1; i >= 0; --i) if(bb.Contains(p)) { best = i; break; }
\* i is the 0-based index the loop is at; the result is 0-based, -1 = none.
RECURSIVE PickFrom(_, _, _)
PickFrom(sh, i, p) ==
    IF i < 0 THEN -1
    ELSE IF Contains(PickBox(sh[i + 1]), p) THEN i
    ELSE PickFrom(sh, i - 1, p)

\* A pick that walks front-to-back (bottom-most wins).
RECURSIVE PickBottomFrom(_, _, _)
PickBottomFrom(sh, i, p) ==
    IF i >= Len(sh) THEN -1
    ELSE IF Contains(PickBox(sh[i + 1]), p) THEN i
    ELSE PickBottomFrom(sh, i + 1, p)

PickBottom(sh, p) == PickBottomFrom(sh, 0, p)

Pick(sh, p) == PickFrom(sh, Len(sh) - 1, p)

Near(a, m, px) == Abs(a.x - m.x) <= px /\ Abs(a.y - m.y) <= px

\* Canvas::HitVertex for selection sel: index of the grabbed handle or -1.
HitVertex(sh, sel, m, px) ==
    IF ~Valid(sh, sel) THEN -1
    ELSE LET s == sh[sel + 1]
         IN  CASE s.type = "Line" ->
                    IF Near(PxPt(s.p1), m, px) THEN 0
                    ELSE IF Near(PxPt(s.p2), m, px) THEN 1 ELSE -1
               [] s.type = "Triangle" ->
                    IF Near(PxPt(s.p1), m, px) THEN 0
                    ELSE IF Near(PxPt(s.p2), m, px) THEN 1
                    ELSE IF Near(PxPt(s.p3), m, px) THEN 2 ELSE -1
               [] s.type = "Rect" ->
                    LET r == RectPx(s)
                    IN  IF Near(Pt(r.left, r.top), m, px) THEN 0
                        ELSE IF Near(Pt(r.right, r.top), m, px) THEN 1
                        ELSE IF Near(Pt(r.right, r.bottom), m, px) THEN 2
                        ELSE IF Near(Pt(r.left, r.bottom), m, px) THEN 3 ELSE -1
               [] OTHER ->
                    LET c  == Pt(X(s.cx), Y(s.cy))
                        rr == Rr(s.r)
                        bb == RectC(c.x - rr, c.y - rr, 2 * rr, 2 * rr)
                    IN  IF Near(Pt(bb.right, c.y), m, px) THEN 0 ELSE -1

\* Canvas::HitBody for selection sel.
HitBody(sh, sel, m) ==
    IF ~Valid(sh, sel) THEN FALSE
    ELSE LET s == sh[sel + 1]
         IN  CASE s.type = "Rect" -> Contains(RectPx(s), m)
               [] s.type = "Circle" ->
                    LET c  == Pt(X(s.cx), Y(s.cy))
                        rr == Rr(s.r)
                    IN  (m.x - c.x) * (m.x - c.x) + (m.y - c.y) * (m.y - c.y)
                            <= rr * rr
               [] s.type = "Line" ->
                    LET a == PxPt(s.p1)
                        b == PxPt(s.p2)
                    IN  Contains(Inflated(MkRect(Min(a.x, b.x), Min(a.y, b.y),
                                                 Max(a.x, b.x), Max(a.y, b.y)), 4), m)
               [] OTHER ->
                    LET a == PxPt(s.p1)
                        b == PxPt(s.p2)
                        c == PxPt(s.p3)
                    IN  Contains(MkRect(Min(Min(a.x, b.x), c.x), Min(Min(a.y, b.y), c.y),
                                        Max(Max(a.x, b.x), c.x), Max(Max(a.y, b.y), c.y)), m)

\* ------------------------------------------------------- shape geometry
\* The point LeftDown measures the grab offset from (x,y / cx,cy / p1).
GrabRef(s) ==
    CASE s.type = "Rect" -> Pt(s.x, s.y)
      [] s.type = "Circle" -> Pt(s.cx, s.cy)
      [] OTHER -> s.p1

Shift(q, dx, dy) == Pt(q.x + dx, q.y + dy)

\* A move that adds the pointer's offset from the grab to where the shape
\* already is.
MoveShapeByDelta(s, p, sn, gnx, gny) ==
    LET q  == IF sn THEN SnapPt(p) ELSE p
        dx == NX(q.x) - gnx
        dy == NY(q.y) - gny
    IN  CASE s.type = "Rect" -> [s EXCEPT !.x = @ + dx, !.y = @ + dy]
          [] s.type = "Circle" -> [s EXCEPT !.cx = @ + dx, !.cy = @ + dy]
          [] s.type = "Line" ->
                [s EXCEPT !.p1 = Pt(@.x + dx, @.y + dy), !.p2 = Pt(@.x + dx, @.y + dy)]
          [] OTHER ->
                [s EXCEPT !.p1 = Pt(@.x + dx, @.y + dy), !.p2 = Pt(@.x + dx, @.y + dy),
                          !.p3 = Pt(@.x + dx, @.y + dy)]

\* A move that takes only the first point of a line or triangle along.
MoveShapeFirstPoint(s, p, sn, gnx, gny) ==
    LET q  == IF sn THEN SnapPt(p) ELSE p
        nx == NX(q.x)
        ny == NY(q.y)
    IN  CASE s.type = "Rect" -> [s EXCEPT !.x = nx - gnx, !.y = ny - gny]
          [] s.type = "Circle" -> [s EXCEPT !.cx = nx - gnx, !.cy = ny - gny]
          [] OTHER -> [s EXCEPT !.p1 = Pt(nx - gnx, ny - gny)]

\* MouseMove, moving branch: the pointer (snapped if snap) minus the grab.
MoveShape(s, p, sn, gnx, gny) ==
    LET q  == IF sn THEN SnapPt(p) ELSE p
        nx == NX(q.x)
        ny == NY(q.y)
    IN  CASE s.type = "Rect" -> [s EXCEPT !.x = nx - gnx, !.y = ny - gny]
          [] s.type = "Circle" -> [s EXCEPT !.cx = nx - gnx, !.cy = ny - gny]
          [] s.type = "Line" ->
                LET dx == nx - gnx - s.p1.x
                    dy == ny - gny - s.p1.y
                IN  [s EXCEPT !.p1 = Shift(@, dx, dy), !.p2 = Shift(@, dx, dy)]
          [] OTHER ->
                LET dx == nx - gnx - s.p1.x
                    dy == ny - gny - s.p1.y
                IN  [s EXCEPT !.p1 = Shift(@, dx, dy), !.p2 = Shift(@, dx, dy),
                              !.p3 = Shift(@, dx, dy)]

\* A handle edit that moves the rectangle's origin and keeps its size.
EditShapeKeepSize(s, p, sn, dv) ==
    LET sp == IF sn THEN SnapPt(p) ELSE p
        nx == NX(sp.x)
        ny == NY(sp.y)
    IN  CASE s.type = "Rect" ->
                CASE dv = 0 -> [s EXCEPT !.x = nx, !.y = ny]
                  [] dv = 1 -> [s EXCEPT !.y = ny, !.w = nx - s.x]
                  [] dv = 2 -> [s EXCEPT !.w = nx - s.x, !.h = ny - s.y]
                  [] dv = 3 -> [s EXCEPT !.x = nx, !.h = ny - s.y]
                  [] OTHER -> s
          [] s.type = "Circle" -> [s EXCEPT !.r = <<nx - s.cx, ny - s.cy>>]
          [] s.type = "Line" ->
                IF dv = 0 THEN [s EXCEPT !.p1 = Pt(nx, ny)]
                ELSE [s EXCEPT !.p2 = Pt(nx, ny)]
          [] OTHER ->
                CASE dv = 0 -> [s EXCEPT !.p1 = Pt(nx, ny)]
                  [] dv = 1 -> [s EXCEPT !.p2 = Pt(nx, ny)]
                  [] dv = 2 -> [s EXCEPT !.p3 = Pt(nx, ny)]
                  [] OTHER -> s

\* MouseMove, handle branch (drag_vertex = dv >= 0).
EditShape(s, p, sn, dv) ==
    LET sp == IF sn THEN SnapPt(p) ELSE p
        nx == NX(sp.x)
        ny == NY(sp.y)
        x2 == s.x + s.w
        y2 == s.y + s.h
    IN  CASE s.type = "Rect" ->
                CASE dv = 0 -> [s EXCEPT !.x = nx, !.y = ny, !.w = x2 - nx, !.h = y2 - ny]
                  [] dv = 1 -> [s EXCEPT !.y = ny, !.w = nx - s.x, !.h = y2 - ny]
                  [] dv = 2 -> [s EXCEPT !.w = nx - s.x, !.h = ny - s.y]
                  [] dv = 3 -> [s EXCEPT !.x = nx, !.w = x2 - nx, !.h = ny - s.y]
                  [] OTHER -> s
          [] s.type = "Circle" -> [s EXCEPT !.r = <<nx - s.cx, ny - s.cy>>]
          [] s.type = "Line" ->
                IF dv = 0 THEN [s EXCEPT !.p1 = Pt(nx, ny)]
                ELSE [s EXCEPT !.p2 = Pt(nx, ny)]
          [] OTHER ->
                CASE dv = 0 -> [s EXCEPT !.p1 = Pt(nx, ny)]
                  [] dv = 1 -> [s EXCEPT !.p2 = Pt(nx, ny)]
                  [] dv = 2 -> [s EXCEPT !.p3 = Pt(nx, ny)]
                  [] OTHER -> s

\* MouseMove, creating branch: geometry from the anchor st and the pointer.
DragCreate(s, p, sn, st) ==
    LET q  == IF sn THEN SnapPt(p) ELSE p
        x0 == NX(st.x)
        y0 == NY(st.y)
        x1 == NX(q.x)
        y1 == NY(q.y)
    IN  CASE s.type = "Rect" ->
                [s EXCEPT !.x = Min(x0, x1), !.y = Min(y0, y1),
                          !.w = Abs(x1 - x0), !.h = Abs(y1 - y0)]
          [] s.type = "Circle" -> [s EXCEPT !.r = <<x1 - s.cx, y1 - s.cy>>]
          [] s.type = "Line" -> [s EXCEPT !.p2 = Pt(x1, y1)]
          [] OTHER -> [s EXCEPT !.p2 = Pt(x1, y1),
                               !.p3 = Pt(2 * s.p1.x - x1, y1)]

\* A create that leaves the built-in style in the new shape.
BeginCreateBuiltinStyle(k, st, i, p) ==
    LET nx == NX(p.x)
        ny == NY(p.y)
        s  == NewShape(k, DefaultStyle, i)
    IN  CASE k = "Rect" -> [s EXCEPT !.x = nx, !.y = ny]
          [] k = "Circle" -> [s EXCEPT !.cx = nx, !.cy = ny]
          [] k = "Line" -> [s EXCEPT !.p1 = Pt(nx, ny), !.p2 = Pt(nx, ny)]
          [] OTHER -> [s EXCEPT !.p1 = Pt(nx, ny), !.p2 = Pt(nx, ny),
                               !.p3 = Pt(nx, ny)]

\* LeftDown, create branch: the new shape of kind k at pointer p.
BeginCreate(k, st, i, p) ==
    LET nx == NX(p.x)
        ny == NY(p.y)
        s  == NewShape(k, st, i)
    IN  CASE k = "Rect" -> [s EXCEPT !.x = nx, !.y = ny]
          [] k = "Circle" -> [s EXCEPT !.cx = nx, !.cy = ny]
          [] k = "Line" -> [s EXCEPT !.p1 = Pt(nx, ny), !.p2 = Pt(nx, ny)]
          [] OTHER -> [s EXCEPT !.p1 = Pt(nx, ny), !.p2 = Pt(nx, ny),
                               !.p3 = Pt(nx, ny)]

\* s.id = shapes.IsEmpty() ? 1 : shapes.Top().id + 1
NextId(sh) == IF Len(sh) = 0 THEN 1 ELSE sh[Len(sh)].id + 1

\* Canvas::FlipSelection on one shape.  The triangle centroid is a third of
\* a sum; it is kept to the model's resolution of 1/Sub pixel.
FlipShape(s, horizontal) ==
    CASE s.type = "Rect" ->
            IF horizontal THEN [s EXCEPT !.x = s.x + s.w]
            ELSE [s EXCEPT !.y = s.y + s.h]
      [] s.type = "Circle" -> s
      [] s.type = "Line" ->
            IF horizontal
            THEN [s EXCEPT !.p1 = Pt(s.p2.x, s.p1.y), !.p2 = Pt(s.p1.x, s.p2.y)]
            ELSE [s EXCEPT !.p1 = Pt(s.p1.x, s.p2.y), !.p2 = Pt(s.p2.x, s.p1.y)]
      [] OTHER ->
            LET c2x == (2 * (s.p1.x + s.p2.x + s.p3.x)) \div 3
                c2y == (2 * (s.p1.y + s.p2.y + s.p3.y)) \div 3
            IN  IF horizontal
                THEN [s EXCEPT !.p1 = Pt(c2x - s.p1.x, s.p1.y),
                               !.p2 = Pt(c2x - s.p2.x, s.p2.y),
                               !.p3 = Pt(c2x - s.p3.x, s.p3.y)]
                ELSE [s EXCEPT !.p1 = Pt(s.p1.x, c2y - s.p1.y),
                               !.p2 = Pt(s.p2.x, c2y - s.p2.y),
                               !.p3 = Pt(s.p3.x, c2y - s.p3.y)]

\* ------------------------------------------------------ sequence helpers
RemoveAt(sh, i) == SubSeq(sh, 1, i) \o SubSeq(sh, i + 2, Len(sh))
InsertAt(sh, i, s) == SubSeq(sh, 1, i) \o <<s>> \o SubSeq(sh, i + 1, Len(sh))
SwapAt(sh, i, j) == [sh EXCEPT ![i + 1] = sh[j + 1], ![j + 1] = sh[i + 1]]

\* A write through the reference Shape& s = shapes[sel] that brings the
\* edited shape to the front.
StoreOnTop(sh, sel, s2) == Append(RemoveAt(sh, sel), s2)

\* Shape& s = shapes[sel]; s = s2: the edited shape stays in its slot.
StoreAt(sh, sel, s2) == [sh EXCEPT ![sel + 1] = s2]

\* --------------------------------------------------- history snapshots
HexDigits == << "0", "1", "2", "3", "4", "5", "6", "7",
               "8", "9", "A", "B", "C", "D", "E", "F" >>
HexVal(ch) == (CHOOSE v \in 1..16 : HexDigits[v] = ch) - 1

\* Format("#%02X%02X%02X", r, g, b), as the sequence of its characters.
ColorToString(c) ==
    << "#", HexDigits[(c[1] \div 16) + 1], HexDigits[(c[1] % 16) + 1],
            HexDigits[(c[2] \div 16) + 1], HexDigits[(c[2] % 16) + 1],
            HexDigits[(c[3] \div 16) + 1], HexDigits[(c[3] % 16) + 1] >>

\* strtoul of the six digits, taken apart in the wrong byte order.
StringToColorBGR(str) ==
    IF Len(str) = 7 /\ str[1] = "#"
    THEN LET n == ((((HexVal(str[2]) * 16 + HexVal(str[3])) * 16 + HexVal(str[4])) * 16
                    + HexVal(str[5])) * 16 + HexVal(str[6])) * 16 + HexVal(str[7])
         IN  << n % 256, (n \div 256) % 256, (n \div 65536) % 256 >>
    ELSE << 0, 0, 0 >>

\* StringToColor: strtoul of the six digits, then (n>>16)&255, (n>>8)&255,
\* n&255; Black for any other string.
StringToColor(str) ==
    IF Len(str) = 7 /\ str[1] = "#"
    THEN LET n == ((((HexVal(str[2]) * 16 + HexVal(str[3])) * 16 + HexVal(str[4])) * 16
                    + HexVal(str[5])) * 16 + HexVal(str[6])) * 16 + HexVal(str[7])
         IN  << (n \div 65536) % 256, (n \div 256) % 256, n % 256 >>
    ELSE << 0, 0, 0 >>

\* The "type" strings of MakeJson and LoadJson.
TypeToString(k) ==
    CASE k = "Rect" -> "rect" [] k = "Circle" -> "circle"
      [] k = "Line" -> "line" [] OTHER -> "triangle"
StringToType(t) ==
    IF t = "rect" THEN "Rect" ELSE IF t = "circle" THEN "Circle"
    ELSE IF t = "line" THEN "Line" ELSE "Triangle"

\* The geometry members, written and read as JSON numbers.
GeomFields == {"x", "y", "w", "h", "cx", "cy", "r", "p1", "p2", "p3"}

\* MakeJson, one element of "shapes": type, style and geom; the id is not
\* written.
JsonShape(s) ==
    [ type |-> TypeToString(s.type),
      style |-> [ fill |-> ColorToString(s.style.fill),
                  stroke |-> ColorToString(s.style.stroke),
                  strokeWidth |-> s.style.strokeWidth,
                  dash |-> s.style.dash,
                  enableFill |-> s.style.enableFill,
                  enableStroke |-> s.style.enableStroke,
                  opacity |-> s.style.opacity,
                  evenOdd |-> s.style.evenOdd,
                  outlineEnable |-> s.style.outlineEnable,
                  outlineColor |-> ColorToString(s.style.outlineColor),
                  outlineWidth |-> s.style.outlineWidth,
                  outlineOutside |-> s.style.outlineOutside ],
      geom |-> [f \in GeomFields |-> s[f]] ]

MakeJson(sh) == [i \in 1..Len(sh) |-> JsonShape(sh[i])]

\* LoadJson, one element of "shapes" read into a Shape with id i.
ShapeOfJson(m, i) ==
    [ type |-> StringToType(m.type),
      style |-> [ fill |-> StringToColor(m.style.fill),
                  stroke |-> StringToColor(m.style.stroke),
                  strokeWidth |-> m.style.strokeWidth,
                  evenOdd |-> m.style.evenOdd,
                  dash |-> m.style.dash,
                  enableFill |-> m.style.enableFill,
                  enableStroke |-> m.style.enableStroke,
                  opacity |-> m.style.opacity,
                  outlineEnable |-> m.style.outlineEnable,
                  outlineColor |-> StringToColor(m.style.outlineColor),
                  outlineWidth |-> m.style.outlineWidth,
                  outlineOutside |-> m.style.outlineOutside ],
      x |-> m.geom.x, y |-> m.geom.y, w |-> m.geom.w, h |-> m.geom.h,
      cx |-> m.geom.cx, cy |-> m.geom.cy, r |-> m.geom.r,
      p1 |-> m.geom.p1, p2 |-> m.geom.p2, p3 |-> m.geom.p3,
      id |-> i ]

\* LoadJson rebuilds the list; ids are reassigned from the running top id.
LoadJson(js) == [i \in 1..Len(js) |-> ShapeOfJson(js[i], i)]

\* A PushHistory that keeps the snapshots after hipos.
PushHistoryKeepTail(h, hp, sh) == Append(h, MakeJson(sh))

\* PushHistory: drop the snapshots after hipos, append, point at the end.
PushHistory(h, hp, sh) == Append(SubSeq(h, 1, hp + 1), MakeJson(sh))

\* ------------------------------------------------------- render and code
\* A command is a tuple: its name, then its arguments.
Opt(cond, cmd) == IF cond THEN << cmd >> ELSE << >>

\* Canvas::EmitRectPath
EmitRectPath(r) ==
    << <<"Begin">>, <<"Move", r.left, r.top>>, <<"Line", r.right, r.top>>,
       <<"Line", r.right, r.bottom>>, <<"Line", r.left, r.bottom>>, <<"Close">> >>

\* Canvas::EmitCirclePath: four cubics, written by their end points.
EmitCirclePath(c, radius) ==
    << <<"Begin">>, <<"Move", c.x, c.y - radius>>,
       <<"Cubic", c.x + radius, c.y>>, <<"Cubic", c.x, c.y + radius>>,
       <<"Cubic", c.x - radius, c.y>>, <<"Cubic", c.x, c.y - radius>>, <<"Close">> >>

\* Canvas::StylePass, as PainterEmitter passes it on (its Opacity, Dash and
\* EvenOdd repeat the conditions of StylePass).
StylePass(st, main_pass, is_line) ==
    IF main_pass
    THEN Opt(st.opacity < 100, <<"Opacity", st.opacity>>)
         \o Opt(st.dash # "", <<"Dash", st.dash>>)
         \o Opt(st.enableFill /\ ~is_line, <<"Fill", st.fill>>)
         \o Opt(st.enableStroke, <<"Stroke", st.strokeWidth, st.stroke>>)
         \o Opt(st.evenOdd, <<"EvenOdd">>)
    ELSE Opt(st.outlineEnable /\ st.outlineWidth > 0,
             <<"Stroke", st.strokeWidth + 2 * Max(0, st.outlineWidth), st.outlineColor>>)

\* EmitShape, lambda rebuild: the path of the shape in pixels.
Rebuild(s) ==
    CASE s.type = "Rect" -> EmitRectPath(RectPx(s))
      [] s.type = "Circle" -> EmitCirclePath(Pt(X(s.cx), Y(s.cy)), Rr(s.r))
      [] s.type = "Line" ->
            << <<"Begin">>, <<"Move", X(s.p1.x), Y(s.p1.y)>>,
               <<"Line", X(s.p2.x), Y(s.p2.y)>> >>
      [] OTHER ->
            << <<"Begin">>, <<"Move", X(s.p1.x), Y(s.p1.y)>>,
               <<"Line", X(s.p2.x), Y(s.p2.y)>>,
               <<"Line", X(s.p3.x), Y(s.p3.y)>>, <<"Close">> >>

\* One pass of EmitShape: rebuild(); StylePass(..); e.End();
EmitPass(s, main_pass) ==
    Rebuild(s) \o StylePass(s.style, main_pass, s.type = "Line") \o << <<"End">> >>

\* Canvas::EmitShape
EmitShape(s) ==
    (IF s.style.outlineEnable /\ s.style.outlineOutside
     THEN EmitPass(s, FALSE) ELSE << >>)
    \o EmitPass(s, TRUE)
    \o (IF s.style.outlineEnable /\ ~s.style.outlineOutside
        THEN EmitPass(s, FALSE) ELSE << >>)

\* RefreshCode, emit_rect / emit_circle / emit_line / emit_tri: the lines of
\* one path fragment, by command; the numbers printed in them are left out.
EmitPath(s) ==
    CASE s.type = "Rect" ->
            << <<"//", "Rectangle">>, <<"Begin">>, <<"Move">>, <<"Line">>,
               <<"Line">>, <<"Line">>, <<"Close">> >>
      [] s.type = "Circle" -> << <<"//", "Circle">>, <<"Begin">>, <<"Circle">> >>
      [] s.type = "Line" -> << <<"//", "Line">>, <<"Begin">>, <<"Move">>, <<"Line">> >>
      [] OTHER ->
            << <<"//", "Triangle">>, <<"Begin">>, <<"Move">>, <<"Line">>,
               <<"Line">>, <<"Close">> >>

\* RefreshCode, emit_style: the style lines of a pass and its p.End().
emit_style(st, main_pass, is_line) ==
    (IF main_pass
     THEN Opt(st.opacity < 100, <<"Opacity", st.opacity>>)
          \o Opt(st.dash # "", <<"Dash", st.dash>>)
          \o Opt(st.enableFill /\ ~is_line, <<"Fill", st.fill>>)
          \o Opt(st.enableStroke, <<"Stroke", st.strokeWidth, st.stroke>>)
          \o Opt(st.evenOdd, <<"EvenOdd">>)
     ELSE Opt(st.outlineEnable /\ st.outlineWidth > 0,
              <<"Stroke", st.strokeWidth + 2 * Max(0, st.outlineWidth), st.outlineColor>>))
    \o << <<"End">> >>

\* RefreshCode, the body of its loop for one shape.
CodeShape(s) ==
    LET outl == s.style.outlineEnable /\ s.style.outlineWidth > 0
        pass(m) == EmitPath(s) \o emit_style(s.style, m, s.type = "Line")
    IN  (IF outl /\ s.style.outlineOutside THEN pass(FALSE) ELSE << >>)
        \o pass(TRUE)
        \o (IF outl /\ ~s.style.outlineOutside THEN pass(FALSE) ELSE << >>)

\* The loop of RefreshCode run from the top of the list downwards.
RECURSIVE CodeDownFrom(_, _)
CodeDownFrom(sh, i) ==
    IF i < 1 THEN << >> ELSE CodeShape(sh[i]) \o CodeDownFrom(sh, i - 1)

RefreshCodeTopFirst(sh) ==
    << <<"static void">> >> \o CodeDownFrom(sh, Len(sh)) \o << <<"}">> >>

\* for(const Shape& s : canvas.shapes) of RefreshCode, from element i on.
RECURSIVE CodeFrom(_, _)
CodeFrom(sh, i) ==
    IF i > Len(sh) THEN << >> ELSE CodeShape(sh[i]) \o CodeFrom(sh, i + 1)

\* MainWin::RefreshCode: the wrapper procedure round the fragments.
RefreshCode(sh) ==
    << <<"static void">> >> \o CodeFrom(sh, 1) \o << <<"}">> >>

\* Canvas::Paint, the loop over the shapes: what the painter receives.
RECURSIVE RenderFrom(_, _)
RenderFrom(sh, i) ==
    IF i > Len(sh) THEN << >> ELSE EmitShape(sh[i]) \o RenderFrom(sh, i + 1)

\* ============================================================ GalleryCtrl
\* The gallery control of GalleryDemo. The view is ViewCx x ViewCy pixels
\* and holds at most MaxItems items, so at every zoom step the content
\* fits the view and Reflow clamps scroll_x and scroll_y to 0.
MaxItems == 4
NItems == 3
ViewCx == 690
ViewCy == 400
pad == 8
label_h == 18
scroll_x == 0
scroll_y == 0
ZoomStepCount == 5
ZoomSteps == << 32, 48, 64, 96, 128 >>
ctrl_marquee_xor == TRUE

ClampInt(v, lo, hi) == IF v < lo THEN lo ELSE IF v > hi THEN hi ELSE v

NormalizeRect(r) ==
    MkRect(Min(r.left, r.right), Min(r.top, r.bottom),
           Max(r.left, r.right), Max(r.top, r.bottom))

\* Upp::Rect::IsEmpty and Intersects.
IsEmpty(r) == r.right <= r.left \/ r.bottom <= r.top
Intersects(a, r) ==
    /\ ~IsEmpty(a) /\ ~IsEmpty(r)
    /\ r.right > a.left /\ r.bottom > a.top /\ r.left < a.right /\ r.top < a.bottom

\* Reflow: cols = max(1, (sz.cx + pad) / (tw + pad)) at zoom index zi.
Cols(zi) == Max(1, (ViewCx + pad) \div (ZoomSteps[zi + 1] + pad))

\* TileRect of tile index among n items at zoom index zi.
TileRect(n, zi, index) ==
    IF index < 0 \/ index >= n THEN MkRect(0, 0, 0, 0)
    ELSE LET tw == ZoomSteps[zi + 1]
             th == ZoomSteps[zi + 1] + label_h
             r  == index \div Cols(zi)
             c  == index % Cols(zi)
         IN  RectC(pad + c * (tw + pad), pad + r * (th + pad), tw, th)

\* IndexFromPoint: the loop from index i upward; -1 if gap or outside.
RECURSIVE IndexFrom(_, _, _, _)
IndexFrom(n, zi, pt, i) ==
    IF i >= n THEN -1
    ELSE IF Contains(TileRect(n, zi, i), pt) THEN i
    ELSE IndexFrom(n, zi, pt, i + 1)
IndexFromPoint(n, zi, pt) == IndexFrom(n, zi, pt, 0)

\* IndicesInRect: the loop from index i upward.
RECURSIVE IndicesFrom(_, _, _, _)
IndicesFrom(n, zi, rc, i) ==
    IF i >= n THEN << >>
    ELSE (IF Intersects(TileRect(n, zi, i), rc) THEN << i >> ELSE << >>)
            \o IndicesFrom(n, zi, rc, i + 1)
IndicesInRect(n, zi, rc) == IndicesFrom(n, zi, rc, 0)

\* Vector<int> helpers.
ContainsIdx(v, x) == \E i \in 1..Len(v) : v[i] = x
RECURSIVE RemoveOne(_, _)
RemoveOne(v, x) ==
    IF v = << >> THEN << >>
    ELSE IF Head(v) = x THEN Tail(v)
    ELSE << Head(v) >> \o RemoveOne(Tail(v), x)

\* Sort(in): ascending, by insertion.
RECURSIVE InsertSorted(_, _)
InsertSorted(v, x) ==
    IF v = << >> THEN << x >>
    ELSE IF x <= Head(v) THEN << x >> \o v
    ELSE << Head(v) >> \o InsertSorted(Tail(v), x)
RECURSIVE Sort(_)
Sort(v) == IF v = << >> THEN << >> ELSE InsertSorted(Sort(Tail(v)), Head(v))

\* GetSelection: the indices of the selected items, ascending.
RECURSIVE SelectionFrom(_, _)
SelectionFrom(it, i) ==
    IF i >= Len(it) THEN << >>
    ELSE (IF it[i + 1].selected THEN << i >> ELSE << >>) \o SelectionFrom(it, i + 1)
GetSelection(it) == SelectionFrom(it, 0)

\* The keyboard flags of a pointer event.
Flags(c, s, a) == [ctrl |-> c, shift |-> s, alt |-> a]
NoFlags == Flags(FALSE, FALSE, FALSE)
Mods ==
    { NoFlags, Flags(TRUE, FALSE, FALSE), Flags(FALSE, TRUE, FALSE),
      Flags(FALSE, FALSE, TRUE), Flags(TRUE, FALSE, TRUE) }

\* Every combination of Ctrl, Shift and Alt.
AllMods == { Flags(c, sh, a) : c \in BOOLEAN, sh \in BOOLEAN, a \in BOOLEAN }

\* The marquee mode LeftDown and MouseMove derive from the keys.
KeyIntersect(f) == f.ctrl /\ f.alt
KeySubtract(f) == ~KeyIntersect(f) /\ f.alt
KeyXor(f) ==
    ~KeyIntersect(f) /\ ~KeySubtract(f) /\ ctrl_marquee_xor
        /\ (f.ctrl /\ ~f.shift /\ ~f.alt)
KeyAdd(f) ==
    ~KeyIntersect(f) /\ ~KeySubtract(f) /\ ~KeyXor(f) /\ (f.shift \/ f.ctrl)

\* ApplyMarqueeSelection, the xor loop over hits from position i.
RECURSIVE ToggleFrom(_, _, _)
ToggleFrom(next, hits, i) ==
    IF i > Len(hits) THEN next
    ELSE ToggleFrom(IF ContainsIdx(next, hits[i]) THEN RemoveOne(next, hits[i])
                    ELSE Append(next, hits[i]), hits, i + 1)

\* ApplyMarqueeSelection, the add loop over hits from position i.
RECURSIVE UniteFrom(_, _, _)
UniteFrom(next, hits, i) ==
    IF i > Len(hits) THEN next
    ELSE UniteFrom(IF ContainsIdx(next, hits[i]) THEN next
                   ELSE Append(next, hits[i]), hits, i + 1)

\* A marquee combiner that takes the xor mode for the add mode.
MarqueeNextXorAsAdd(prev, hits, add, sub, inter, xr) ==
    LET In(id) == ContainsIdx(hits, id)
        Out(id) == ~ContainsIdx(hits, id)
    IN  IF inter THEN SelectSeq(prev, In)
        ELSE IF sub THEN SelectSeq(prev, Out)
        ELSE IF xr \/ add THEN UniteFrom(prev, hits, 1)
        ELSE hits

\* ApplyMarqueeSelection: the vector next from the baseline prev and the
\* tiles hits under the marquee.
MarqueeNext(prev, hits, add, sub, inter, xr) ==
    LET In(id) == ContainsIdx(hits, id)
        Out(id) == ~ContainsIdx(hits, id)
    IN  IF inter THEN SelectSeq(prev, In)
        ELSE IF sub THEN SelectSeq(prev, Out)
        ELSE IF xr THEN ToggleFrom(prev, hits, 1)
        ELSE IF add THEN UniteFrom(prev, hits, 1)
        ELSE hits

\* The name of the branch ApplyMarqueeSelection takes.
MarqueeMode(add, sub, inter, xr) ==
    IF inter THEN "Intersect" ELSE IF sub THEN "Subtract"
    ELSE IF xr THEN "Xor" ELSE IF add THEN "Add" ELSE "Replace"

\* A commit that sets the flags of the proposed items and clears none.
CommittedOnTop(it, in) ==
    [ i \in 1..Len(it) |->
        [it[i] EXCEPT !.selected = @ \/ ContainsIdx(in, i - 1)] ]

\* CommitSelection past the gate: every flag cleared, then the flags of
\* the proposed indices inside 0..count-1 set.
Committed(it, in) ==
    [ i \in 1..Len(it) |-> [it[i] EXCEPT !.selected = ContainsIdx(in, i - 1)] ]

\* A zoom change that notifies on every call.
ZoomNotifiedAlways(old, zi) == << zi >>

\* SetZoomIndex: WhenZoom(zoom_i) unless the early return is taken.
ZoomNotified(old, zi) == IF old = zi THEN << >> ELSE << zi >>

\* A click whose Ctrl branch adds the item and never removes it.
ClickNextCtrlAdds(cur, i, f, anchor) ==
    IF f.shift /\ anchor >= 0
    THEN LET a == Min(anchor, i)
             b == Max(anchor, i)
         IN  [ k \in 1..(b - a + 1) |-> a + k - 1 ]
    ELSE IF f.ctrl
    THEN IF ContainsIdx(cur, i) THEN cur ELSE Append(cur, i)
    ELSE << i >>

\* LeftUp, pending click at tile i with flags f: the vector next.
ClickNext(cur, i, f, anchor) ==
    IF f.shift /\ anchor >= 0
    THEN LET a == Min(anchor, i)
             b == Max(anchor, i)
         IN  [ k \in 1..(b - a + 1) |-> a + k - 1 ]
    ELSE IF f.ctrl
    THEN IF ContainsIdx(cur, i) THEN RemoveOne(cur, i) ELSE Append(cur, i)
    ELSE << i >>

NewItems(n) == [ i \in 1..n |-> [selected |-> FALSE] ]

\* ------------------------------------------------------------------ state
VARIABLES
    shapes,        \* Canvas::shapes, back-to-front
    selected,      \* Canvas::selected, 0-based, -1 = none
    tool,          \* Canvas::tool
    snap,          \* Canvas::snap
    drawing,       \* Canvas::drawing
    moving,        \* Canvas::moving
    drag_vertex,   \* Canvas::drag_vertex
    start,         \* Canvas::start
    grab_px,       \* Canvas::grab_px
    grab_nx,       \* Canvas::grab_nx
    grab_ny,       \* Canvas::grab_ny
    defaultStyle,  \* Canvas::defaultStyle
    ui,            \* the style panel widgets of MainWin
    hist,          \* MainWin::hist
    hipos,         \* MainWin::hipos
    captured,      \* the canvas holds the pointer capture
    fault,         \* an element outside 0..count-1 of shapes was accessed
    halted,        \* the process was aborted by that access
    ev,            \* the last operation and the notifications it made
    gest,          \* the current pointer gesture and its notifications
    steps,         \* operations performed so far
    probe,         \* the last call of a static helper: name, arguments, result
    items,         \* GalleryCtrl::items, the selected flag of each
    zoom_i,        \* GalleryCtrl::zoom_i
    anchor_index,  \* GalleryCtrl::anchor_index
    mouse_down,    \* GalleryCtrl::mouse_down; the control holds the capture
    dragging,      \* GalleryCtrl::dragging
    drag_additive,     \* GalleryCtrl::drag_additive
    drag_subtractive,  \* GalleryCtrl::drag_subtractive
    drag_intersect,    \* GalleryCtrl::drag_intersect
    drag_xor,          \* GalleryCtrl::drag_xor
    pending_click,     \* GalleryCtrl::pending_click
    pending_index,     \* GalleryCtrl::pending_index
    pending_flags,     \* GalleryCtrl::pending_flags
    drag_origin_win,   \* GalleryCtrl::drag_origin_win
    drag_rect_win,     \* GalleryCtrl::drag_rect_win
    drag_prev_sel,     \* GalleryCtrl::drag_prev_sel
    when_selecting,    \* a WhenSelecting gate is installed
    down_sel,      \* the selection when the pointer went down
    gev            \* the last gallery operation and the notifications it made

canvas == << shapes, selected, tool, snap, drawing, moving, drag_vertex, start,
             grab_px, grab_nx, grab_ny, defaultStyle, ui, hist, hipos, captured,
             fault, halted, ev, gest >>
editor == << canvas, steps >>
gallery == << items, zoom_i, anchor_index, mouse_down, dragging, drag_additive,
              drag_subtractive, drag_intersect, drag_xor, pending_click,
              pending_index, pending_flags, drag_origin_win, drag_rect_win,
              drag_prev_sel, when_selecting, down_sel, gev >>
vars == << editor, probe, gallery >>

NoPt == Pt(-1, -1)

Call(f, a, o) == [fn |-> f, args |-> a, out |-> o]

\* The last gallery operation: op its name, arg its argument, zb and before
\* the zoom index and the selection it found, commits the calls of
\* CommitSelection it made, mode the marquee branch taken, proposed the
\* sorted vector handed to the gate, vetoed the gate's refusal, ws the calls
\* of WhenSelection and wz the arguments of the calls of WhenZoom.
GEv(o, a, z, b, c, m, pr, v, s, w) ==
    [ op |-> o, arg |-> a, zb |-> z, before |-> b, commits |-> c, mode |-> m,
      proposed |-> pr, vetoed |-> v, ws |-> s, wz |-> w ]

\* op is the class of the last operation (Init, LeftDown, MouseMove, LeftUp,
\* CaptureLost, Paint, or Command for a toolbar or panel command), p the
\* pixel of a pointer-down, mc and sc the numbers of "model changed" and
\* "selection changed" notifications the operation made.
Ev(o, q, m, c) == [op |-> o, p |-> q, mc |-> m, sc |-> c]

\* What a read past the end of the vector may bring into the document.
GarbageShapes == { NewShape("Rect", DefaultStyle, 0), NewShape("Line", DefaultStyle, 0) }

\* The style OnSelectionChanged loads into the panel.
SelStyle(sh, sel, dst) == IF Valid(sh, sel) THEN sh[sel + 1].style ELSE dst

Init ==
    /\ shapes = << >>
    /\ selected = -1
    /\ tool = "Cursor"
    /\ snap = TRUE
    /\ drawing = FALSE
    /\ moving = FALSE
    /\ drag_vertex = -1
    /\ start = Pt(0, 0)
    /\ grab_px = Pt(0, 0)
    /\ grab_nx = 0
    /\ grab_ny = 0
    /\ defaultStyle = DefaultStyle
    /\ ui = LoadUIFrom(InitialUI, DefaultStyle)
    /\ hist = << MakeJson(<< >>) >>
    /\ hipos = 0
    /\ captured = FALSE
    /\ fault = FALSE
    /\ halted = FALSE
    /\ ev = Ev("Init", NoPt, 0, 0)
    /\ gest = [kind |-> "none", mc |-> 0, lost |-> FALSE, done |-> TRUE]
    /\ steps = 0
    /\ probe = Call("none", << >>, 0)
    /\ items = NewItems(NItems)
    /\ zoom_i = 2
    /\ anchor_index = -1
    /\ mouse_down = FALSE
    /\ dragging = FALSE
    /\ drag_additive = FALSE
    /\ drag_subtractive = FALSE
    /\ drag_intersect = FALSE
    /\ drag_xor = FALSE
    /\ pending_click = FALSE
    /\ pending_index = -1
    /\ pending_flags = NoFlags
    /\ drag_origin_win = Pt(0, 0)
    /\ drag_rect_win = MkRect(0, 0, 0, 0)
    /\ drag_prev_sel = << >>
    /\ when_selecting = FALSE
    /\ down_sel = << >>
    /\ gev = GEv("Init", 0, 2, << >>, 0, "", << >>, FALSE, 0, << >>)

\* One more operation of the bounded run of the editor; the static helpers
\* are not called on their own and the gallery is another program.
Step == steps < MaxSteps /\ steps' = steps + 1 /\ UNCHANGED << probe, gallery >>

\* ---------------------------------------------------------------- toolbar
SetTool(t) ==
    /\ Step
    /\ ~halted /\ ~captured
    /\ tool' = t
    /\ ev' = Ev("Command", NoPt, 0, 0)
    /\ UNCHANGED << shapes, selected, snap, drawing, moving, drag_vertex, start,
                    grab_px, grab_nx, grab_ny, defaultStyle, ui, hist, hipos,
                    captured, fault, halted, gest >>

OnTogglesChanged ==
    /\ Step
    /\ ~halted /\ ~captured
    /\ snap' = ~snap
    /\ ev' = Ev("Command", NoPt, 0, 0)
    /\ UNCHANGED << shapes, selected, tool, drawing, moving, drag_vertex, start,
                    grab_px, grab_nx, grab_ny, defaultStyle, ui, hist, hipos,
                    captured, fault, halted, gest >>

\* ------------------------------------------------------------ pointer-down
\* A pointer-down reaches the canvas when the button is up: the previous
\* gesture has ended or its capture was lost.
LeftDownCursor(p) ==
    /\ Step
    /\ ~halted /\ ~captured
    /\ tool = "Cursor"
    /\ LET best == Pick(shapes, p)
           hv   == HitVertex(shapes, best, p, HandlePx)
           body == HitBody(shapes, best, p)
           mv   == best >= 0 /\ hv < 0 /\ body
           ref  == GrabRef(shapes[best + 1])
       IN  /\ selected' = best
           /\ drag_vertex' = IF best >= 0 THEN hv ELSE -1
           /\ moving' = mv
           /\ grab_px' = IF best >= 0 /\ (hv >= 0 \/ body) THEN p ELSE grab_px
           /\ grab_nx' = IF mv THEN NX(p.x) - ref.x ELSE grab_nx
           /\ grab_ny' = IF mv THEN NY(p.y) - ref.y ELSE grab_ny
           /\ ui' = LoadUIFrom(ui, SelStyle(shapes, best, defaultStyle))
           /\ gest' = [kind |-> IF mv \/ (best >= 0 /\ hv >= 0) THEN "edit" ELSE "select",
                       mc |-> 0, lost |-> FALSE, done |-> FALSE]
    /\ captured' = TRUE
    /\ ev' = Ev("LeftDown", p, 0, 1)
    /\ UNCHANGED << shapes, tool, snap, drawing, start, defaultStyle, hist,
                    hipos, fault, halted >>

LeftDownCreate(p) ==
    /\ Step
    /\ ~halted /\ ~captured
    /\ tool \in Kinds
    /\ Contains(GetInsetRect, p)
    /\ start' = IF snap THEN SnapPt(p) ELSE p
    /\ shapes' = Append(shapes, BeginCreate(tool, defaultStyle, NextId(shapes), p))
    /\ selected' = Len(shapes')  - 1
    /\ drawing' = TRUE
    /\ hist' = PushHistory(hist, hipos, shapes')
    /\ hipos' = Len(hist') - 1
    /\ captured' = TRUE
    /\ ev' = Ev("LeftDown", p, 1, 0)
    /\ gest' = [kind |-> "create", mc |-> 1, lost |-> FALSE, done |-> FALSE]
    /\ UNCHANGED << tool, snap, moving, drag_vertex, grab_px, grab_nx, grab_ny,
                    defaultStyle, ui, fault, halted >>

LeftDownOutside(p) ==
    /\ Step
    /\ ~halted /\ ~captured
    /\ tool \in Kinds
    /\ ~Contains(GetInsetRect, p)
    /\ captured' = TRUE
    /\ ev' = Ev("LeftDown", p, 0, 0)
    /\ gest' = [kind |-> "none", mc |-> 0, lost |-> FALSE, done |-> FALSE]
    /\ UNCHANGED << shapes, selected, tool, snap, drawing, moving, drag_vertex,
                    start, grab_px, grab_nx, grab_ny, defaultStyle, ui, hist,
                    hipos, fault, halted >>

\* ------------------------------------------------------------ pointer-move
\* The live-edit branch of MouseMove is taken.
EditBranch == tool = "Cursor" /\ Valid(shapes, selected) /\ (moving \/ drag_vertex >= 0)

MouseMove(p) ==
    /\ Step
    /\ ~halted
    /\ EditBranch \/ ~drawing \/ Valid(shapes, selected)
    /\ shapes' =
         IF EditBranch /\ moving
         THEN StoreAt(shapes, selected, MoveShape(shapes[selected + 1], p, snap, grab_nx, grab_ny))
         ELSE IF EditBranch
         THEN StoreAt(shapes, selected, EditShape(shapes[selected + 1], p, snap, drag_vertex))
         ELSE IF ~drawing THEN shapes
         ELSE StoreAt(shapes, selected, DragCreate(shapes[selected + 1], p, snap, start))
    /\ ev' = Ev("MouseMove", NoPt, 0, 0)
    /\ UNCHANGED << selected, tool, snap, drawing, moving, drag_vertex, start,
                    grab_px, grab_nx, grab_ny, defaultStyle, ui, hist, hipos,
                    captured, fault, halted, gest >>

\* MouseMove with drawing set and the selection outside the list:
\* shapes[selected] is written without a range check.
MouseMoveFault(p) ==
    /\ Step
    /\ ~halted
    /\ ~EditBranch /\ drawing /\ ~Valid(shapes, selected)
    /\ fault' = TRUE
    /\ \E abort \in BOOLEAN : halted' = abort
    /\ ev' = Ev("MouseMove", NoPt, 0, 0)
    /\ UNCHANGED << shapes, selected, tool, snap, drawing, moving, drag_vertex,
                    start, grab_px, grab_nx, grab_ny, defaultStyle, ui, hist,
                    hipos, captured, gest >>

\* -------------------------------------------------------------- pointer-up
\* The release of the button pressed by the last pointer-down.
LeftUp ==
    /\ Step
    /\ ~halted /\ ~gest.done
    /\ LET edited == drawing \/ moving \/ drag_vertex >= 0
       IN  /\ hist' = IF edited THEN PushHistory(hist, hipos, shapes) ELSE hist
           /\ hipos' = IF edited THEN Len(hist') - 1 ELSE hipos
           /\ ev' = Ev("LeftUp", NoPt, IF edited THEN 1 ELSE 0, 0)
           /\ gest' = [gest EXCEPT !.mc = @ + (IF edited THEN 1 ELSE 0), !.done = TRUE]
    /\ drawing' = FALSE
    /\ moving' = FALSE
    /\ drag_vertex' = -1
    /\ captured' = FALSE
    /\ UNCHANGED << shapes, selected, tool, snap, start, grab_px, grab_nx,
                    grab_ny, defaultStyle, ui, fault, halted >>

\* The canvas loses the capture; Canvas overrides no cancel handler, so no
\* code of the canvas runs.
CaptureLost ==
    /\ Step
    /\ ~halted
    /\ captured
    /\ captured' = FALSE
    /\ gest' = [gest EXCEPT !.lost = TRUE]
    /\ ev' = Ev("CaptureLost", NoPt, 0, 0)
    /\ UNCHANGED << shapes, selected, tool, snap, drawing, moving, drag_vertex,
                    start, grab_px, grab_nx, grab_ny, defaultStyle, ui, hist,
                    hipos, fault, halted >>

\* ---------------------------------------------------------------- edit ops
\* MainWin::OnDelete -> Canvas::DeleteSelection
OnDelete ==
    /\ Step
    /\ ~halted /\ ~captured
    /\ IF Valid(shapes, selected)
       THEN /\ shapes' = RemoveAt(shapes, selected)
            /\ selected' = Min(selected, Len(shapes') - 1)
            /\ hist' = PushHistory(hist, hipos, shapes')
            /\ hipos' = Len(hist') - 1
            /\ ui' = LoadUIFrom(ui, SelStyle(shapes', selected', defaultStyle))
            /\ ev' = Ev("Command", NoPt, 1, 1)
       ELSE /\ ev' = Ev("Command", NoPt, 0, 0)
            /\ UNCHANGED << shapes, selected, hist, hipos, ui >>
    /\ UNCHANGED << tool, snap, drawing, moving, drag_vertex, start, grab_px,
                    grab_nx, grab_ny, defaultStyle, captured, fault, halted, gest >>

\* MainWin::OnDuplicate -> Canvas::DuplicateSelection
OnDuplicate ==
    /\ Step
    /\ ~halted /\ ~captured
    /\ IF Valid(shapes, selected)
       THEN /\ shapes' = InsertAt(shapes, selected + 1,
                                  [shapes[selected + 1] EXCEPT !.id = NextId(shapes)])
            /\ selected' = selected + 1
            /\ hist' = PushHistory(hist, hipos, shapes')
            /\ hipos' = Len(hist') - 1
            /\ ev' = Ev("Command", NoPt, 1, 0)
       ELSE /\ ev' = Ev("Command", NoPt, 0, 0)
            /\ UNCHANGED << shapes, selected, hist, hipos >>
    /\ UNCHANGED << tool, snap, drawing, moving, drag_vertex, start, grab_px,
                    grab_nx, grab_ny, defaultStyle, ui, captured, fault, halted,
                    gest >>

\* MainWin::OnLayerUp -> Canvas::LayerUp
OnLayerUp ==
    /\ Step
    /\ ~halted /\ ~captured
    /\ IF selected >= 0 /\ selected + 1 < Len(shapes)
       THEN /\ shapes' = SwapAt(shapes, selected, selected + 1)
            /\ selected' = selected + 1
            /\ hist' = PushHistory(hist, hipos, shapes')
            /\ hipos' = Len(hist') - 1
            /\ ev' = Ev("Command", NoPt, 1, 0)
       ELSE /\ ev' = Ev("Command", NoPt, 0, 0)
            /\ UNCHANGED << shapes, selected, hist, hipos >>
    /\ UNCHANGED << tool, snap, drawing, moving, drag_vertex, start, grab_px,
                    grab_nx, grab_ny, defaultStyle, ui, captured, fault, halted,
                    gest >>

\* MainWin::OnLayerDown -> Canvas::LayerDown, with both swapped elements
\* inside the list (or the guard selected > 0 false).
OnLayerDown ==
    /\ Step
    /\ ~halted /\ ~captured
    /\ selected > 0 => selected < Len(shapes)
    /\ IF selected > 0
       THEN /\ shapes' = SwapAt(shapes, selected, selected - 1)
            /\ selected' = selected - 1
            /\ hist' = PushHistory(hist, hipos, shapes')
            /\ hipos' = Len(hist') - 1
            /\ ev' = Ev("Command", NoPt, 1, 0)
       ELSE /\ ev' = Ev("Command", NoPt, 0, 0)
            /\ UNCHANGED << shapes, selected, hist, hipos >>
    /\ UNCHANGED << tool, snap, drawing, moving, drag_vertex, start, grab_px,
                    grab_nx, grab_ny, defaultStyle, ui, captured, fault, halted,
                    gest >>

\* Canvas::LayerDown with selected > 0 and selected >= count: the guard has
\* no upper bound, so Swap(shapes[selected], shapes[selected-1]) reads and
\* writes past the end.  The build either aborts or swaps whatever lies
\* there into the list and carries on.
OnLayerDownFault ==
    /\ Step
    /\ ~halted /\ ~captured
    /\ selected > 0 /\ selected >= Len(shapes)
    /\ fault' = TRUE
    /\ \E abort \in BOOLEAN, g \in GarbageShapes :
         IF abort
         THEN /\ halted' = TRUE
              /\ ev' = Ev("Command", NoPt, 0, 0)
              /\ UNCHANGED << shapes, selected, hist, hipos >>
         ELSE /\ halted' = FALSE
              /\ shapes' = IF selected = Len(shapes)
                           THEN [shapes EXCEPT ![selected] = g] ELSE shapes
              /\ selected' = selected - 1
              /\ hist' = PushHistory(hist, hipos, shapes')
              /\ hipos' = Len(hist') - 1
              /\ ev' = Ev("Command", NoPt, 1, 0)
    /\ UNCHANGED << tool, snap, drawing, moving, drag_vertex, start, grab_px,
                    grab_nx, grab_ny, defaultStyle, ui, captured, gest >>

\* MainWin::OnFlipH / OnFlipV -> Canvas::FlipSelection
OnFlip(horizontal) ==
    /\ Step
    /\ ~halted /\ ~captured
    /\ IF Valid(shapes, selected)
       THEN /\ shapes' = StoreAt(shapes, selected, FlipShape(shapes[selected + 1], horizontal))
            /\ hist' = PushHistory(hist, hipos, shapes')
            /\ hipos' = Len(hist') - 1
            /\ ev' = Ev("Command", NoPt, 1, 0)
       ELSE /\ ev' = Ev("Command", NoPt, 0, 0)
            /\ UNCHANGED << shapes, hist, hipos >>
    /\ UNCHANGED << selected, tool, snap, drawing, moving, drag_vertex, start,
                    grab_px, grab_nx, grab_ny, defaultStyle, ui, captured, fault,
                    halted, gest >>

\* ----------------------------------------------------------------- history
OnUndo ==
    /\ Step
    /\ ~halted /\ ~captured
    /\ hipos' = IF hipos > 0 THEN hipos - 1 ELSE hipos
    /\ shapes' = IF hipos > 0 THEN LoadJson(hist[hipos' + 1]) ELSE shapes
    /\ ev' = Ev("Command", NoPt, 0, 0)
    /\ UNCHANGED << selected, tool, snap, drawing, moving, drag_vertex, start,
                    grab_px, grab_nx, grab_ny, defaultStyle, ui, hist, captured,
                    fault, halted, gest >>

OnRedo ==
    /\ Step
    /\ ~halted /\ ~captured
    /\ hipos' = IF hipos + 1 < Len(hist) THEN hipos + 1 ELSE hipos
    /\ shapes' = IF hipos + 1 < Len(hist) THEN LoadJson(hist[hipos' + 1]) ELSE shapes
    /\ ev' = Ev("Command", NoPt, 0, 0)
    /\ UNCHANGED << selected, tool, snap, drawing, moving, drag_vertex, start,
                    grab_px, grab_nx, grab_ny, defaultStyle, ui, hist, captured,
                    fault, halted, gest >>

OnClearAll ==
    /\ Step
    /\ ~halted /\ ~captured
    /\ shapes' = << >>
    /\ selected' = -1
    /\ hist' = PushHistory(hist, hipos, shapes')
    /\ hipos' = Len(hist') - 1
    /\ ui' = LoadUIFrom(ui, defaultStyle)
    /\ ev' = Ev("Command", NoPt, 0, 1)
    /\ UNCHANGED << tool, snap, drawing, moving, drag_vertex, start, grab_px,
                    grab_nx, grab_ny, defaultStyle, captured, fault, halted, gest >>

\* ------------------------------------------------------------ design files
\* Documents a user may load with Load Design: files that Save Design wrote
\* for the default inset.
\* Styles the style panel can give a shape before Save Design.
StyleOutlineNoWidth == [DefaultStyle EXCEPT !.outlineEnable = TRUE]
StyleOutlinedEvenOdd ==
    [DefaultStyle EXCEPT !.outlineEnable = TRUE, !.outlineWidth = 3,
                         !.dash = "5,-3", !.evenOdd = TRUE]
StyleDashedFaint ==
    [DefaultStyle EXCEPT !.dash = "5,-3,0,2", !.opacity = 50]

FileRect ==
    JsonShape([NewShape("Rect", DefaultStyle, 0)
                  EXCEPT !.x = NX(70), !.y = NY(70),
                         !.w = NX(108) - NX(70), !.h = NY(112) - NY(70)])
FileCircle ==
    JsonShape([NewShape("Circle", StyleOutlineNoWidth, 0)
                  EXCEPT !.cx = NX(90), !.cy = NY(90), !.r = <<100, 0>>])
FileTriangle ==
    JsonShape([NewShape("Triangle", StyleOutlinedEvenOdd, 0)
                  EXCEPT !.p1 = Pt(NX(90), NY(60)), !.p2 = Pt(NX(120), NY(120)),
                         !.p3 = Pt(NX(60), NY(120))])
FileLine ==
    JsonShape([NewShape("Line", StyleDashedFaint, 0)
                  EXCEPT !.p1 = Pt(NX(60), NY(60)), !.p2 = Pt(NX(120), NY(120))])

DesignFiles ==
    { << FileRect >>, << FileRect, FileCircle >>, << FileTriangle, FileLine >> }

\* MainWin::LoadDesign with a well-formed file: LoadJson, then PushHistory.
LoadDesign(d) ==
    /\ Step
    /\ ~halted /\ ~captured
    /\ shapes' = LoadJson(d)
    /\ hist' = PushHistory(hist, hipos, shapes')
    /\ hipos' = Len(hist') - 1
    /\ ev' = Ev("Command", NoPt, 0, 0)
    /\ UNCHANGED << selected, tool, snap, drawing, moving, drag_vertex, start,
                    grab_px, grab_nx, grab_ny, defaultStyle, ui, captured, fault,
                    halted, gest >>

\* ------------------------------------------------------------- style panel
\* The widget changes the user makes, one per OnStyleChanged.
StyleEdits == { <<"optFill", FALSE>>, <<"optFill", TRUE>> }

\* OnStyleChanged / OnDashChanged -> ApplyStyleToSelectionOrDefaults(false)
OnStyleChanged(e) ==
    /\ Step
    /\ ~halted /\ ~captured
    /\ ui[e[1]] # e[2]
    /\ ui' = [ui EXCEPT ![e[1]] = e[2]]
    /\ IF Valid(shapes, selected)
       THEN /\ shapes' = [shapes EXCEPT ![selected + 1].style = StyleFromUI(ui')]
            /\ UNCHANGED defaultStyle
       ELSE /\ defaultStyle' = StyleFromUI(ui')
            /\ UNCHANGED shapes
    /\ ev' = Ev("Command", NoPt, 0, 0)
    /\ UNCHANGED << selected, tool, snap, drawing, moving, drag_vertex, start,
                    grab_px, grab_nx, grab_ny, hist, hipos, captured, fault,
                    halted, gest >>

\* ------------------------------------------------------------------- paint
\* Canvas::Paint: the only state it writes is the selection of an empty list.
Paint ==
    /\ Step
    /\ ~halted
    /\ selected' = IF Len(shapes) = 0 /\ selected >= 0 THEN -1 ELSE selected
    /\ ev' = Ev("Paint", NoPt, 0, 0)
    /\ UNCHANGED << shapes, tool, snap, drawing, moving, drag_vertex, start,
                    grab_px, grab_nx, grab_ny, defaultStyle, ui, hist, hipos,
                    captured, fault, halted, gest >>

\* ------------------------------------------------------------------- spec
Next ==
    \/ \E t \in Tools : SetTool(t)
    \/ OnTogglesChanged
    \/ \E p \in Pixels : LeftDownCursor(p)
    \/ \E p \in Pixels : LeftDownCreate(p)
    \/ \E p \in Pixels : LeftDownOutside(p)
    \/ \E p \in Pixels : MouseMove(p)
    \/ \E p \in Pixels : MouseMoveFault(p)
    \/ LeftUp
    \/ CaptureLost
    \/ OnDelete
    \/ OnDuplicate
    \/ OnLayerUp
    \/ OnLayerDown
    \/ OnLayerDownFault
    \/ \E hz \in BOOLEAN : OnFlip(hz)
    \/ OnUndo
    \/ OnRedo
    \/ OnClearAll
    \/ \E d \in DesignFiles : LoadDesign(d)
    \/ \E e \in StyleEdits : OnStyleChanged(e)
    \/ Paint

Spec == Init /\ [][Next]_vars

\* ------------------------------------------------------ the static helpers
\* The helpers of Canvas are pure; they are called here on their own, with
\* arguments drawn from small sets around the origin of the grid.
MaxOff == 30
Origins == {0, InsetX}
GridSteps == {1, 2, 5, Grid}
WorkAreas == {GetInsetRect, RectC(0, 0, 1, 1), RectC(10, 20, 7, 3)}
CallSnap1D(v, origin, step) ==
    /\ probe' = Call("Snap1D", << v, origin, step >>, Snap1D(v, origin, step))
    /\ UNCHANGED << editor, gallery >>

\* NX then X on the pixel column px of work area r.
CallX(r, px) ==
    /\ probe' = Call("X", << r, px >>, XOf(r, NXOf(r, px)))
    /\ UNCHANGED << editor, gallery >>

\* NY then Y on the pixel row py of work area r.
CallY(r, py) ==
    /\ probe' = Call("Y", << r, py >>, YOf(r, NYOf(r, py)))
    /\ UNCHANGED << editor, gallery >>

HelperNext ==
    \/ \E o \in Origins, st \in GridSteps, d \in (-MaxOff)..MaxOff :
          CallSnap1D(o + d, o, st)
    \/ \E r \in WorkAreas, d \in (-MaxOff)..MaxOff : CallX(r, r.left + d)
    \/ \E r \in WorkAreas, d \in (-MaxOff)..MaxOff : CallY(r, r.top + d)

HelperSpec == Init /\ [][HelperNext]_vars

\* --------------------------------------------------- handle and body drags
\* Pointer gestures on a loaded design: the pixels are the inner sides of
\* the four corners of FileRect and its middle, a pixel left of and above
\* the work area, one beyond the bottom-right corner of FileRect and one
\* between the two.
GesturePixels ==
    { Pt(70, 70), Pt(106, 72), Pt(106, 110), Pt(72, 110), Pt(90, 90),
      Pt(40, 40), Pt(130, 130), Pt(120, 120) }
GestureDesigns == DesignFiles \cup { << FileTriangle >> }

GestureNext ==
    \/ \E d \in GestureDesigns : LoadDesign(d)
    \/ OnTogglesChanged
    \/ \E p \in GesturePixels : LeftDownCursor(p)
    \/ \E p \in GesturePixels : MouseMove(p)
    \/ LeftUp

GestureSpec == Init /\ [][GestureNext]_vars

\* ------------------------------------------------------------ the gallery
\* The pointer pixels: inside the first two tiles at the default zoom and
\* in the empty lower right, beyond the last tile.
MaxOps == 6
GalleryPixels == { Pt(20, 20), Pt(90, 20), Pt(500, 300) }
ZoomRequests == (-1)..ZoomStepCount

\* One more operation of the bounded run of the gallery.
GalleryStep == steps < MaxOps /\ steps' = steps + 1 /\ UNCHANGED << canvas, probe >>

\* An operation that does not call CommitSelection.
NoCommit(o, a) ==
    gev' = GEv(o, a, zoom_i, GetSelection(items), 0, "", << >>, FALSE, 0, << >>)

\* CommitSelection(indices) inside operation o; m names the marquee
\* branch that built indices. The gate, if installed, answers as its
\* handler chooses.
CommitSelection(o, a, m, indices) ==
    \E ok \in (IF when_selecting THEN BOOLEAN ELSE {TRUE}) :
        /\ items' = IF ok THEN Committed(items, Sort(indices)) ELSE items
        /\ gev' = GEv(o, a, zoom_i, GetSelection(items), 1, m, Sort(indices),
                      ~ok, IF ok THEN 1 ELSE 0, << >>)

\* ApplyMarqueeSelection over marquee rc and baseline prev.
ApplyMarqueeSelection(o, a, rc, prev, add, sub, inter, xr) ==
    LET selc == NormalizeRect(rc)
        hits == IndicesInRect(Len(items), zoom_i, selc)
    IN  CommitSelection(o, a, MarqueeMode(add, sub, inter, xr),
                        MarqueeNext(prev, hits, add, sub, inter, xr))

GalleryLeftDown(p, f) ==
    /\ GalleryStep
    /\ ~mouse_down
    /\ LET i   == IndexFromPoint(Len(items), zoom_i, Pt(p.x + scroll_x, p.y + scroll_y))
           cur == GetSelection(items)
       IN  /\ pending_click' = (i >= 0)
           /\ pending_index' = i
           /\ pending_flags' = IF i >= 0 THEN f ELSE NoFlags
           /\ drag_prev_sel' = cur
           /\ down_sel' = cur
           /\ IF i < 0 /\ ~f.ctrl /\ ~f.shift /\ ~f.alt /\ Len(cur) > 0
              THEN CommitSelection("LeftDown", 0, "", << >>)
              ELSE NoCommit("LeftDown", 0) /\ items' = items
    /\ mouse_down' = TRUE
    /\ dragging' = FALSE
    /\ drag_intersect' = KeyIntersect(f)
    /\ drag_subtractive' = KeySubtract(f)
    /\ drag_xor' = KeyXor(f)
    /\ drag_additive' = KeyAdd(f)
    /\ drag_origin_win' = p
    /\ drag_rect_win' = MkRect(p.x, p.y, p.x, p.y)
    /\ UNCHANGED << zoom_i, anchor_index, when_selecting >>

\* MouseMove with no button held: only the hover index may change.
GalleryHover(p) ==
    /\ GalleryStep
    /\ ~mouse_down
    /\ NoCommit("Hover", 0)
    /\ UNCHANGED << items, zoom_i, anchor_index, mouse_down, dragging,
                    drag_additive, drag_subtractive, drag_intersect, drag_xor,
                    pending_click, pending_index, pending_flags, drag_origin_win,
                    drag_rect_win, drag_prev_sel, when_selecting, down_sel >>

\* MouseMove entering the control with the left button already down: the
\* drag is adopted; the pointer has not moved from its origin yet.
GalleryAdopt(p, f) ==
    /\ GalleryStep
    /\ ~mouse_down
    /\ mouse_down' = TRUE
    /\ dragging' = FALSE
    /\ drag_intersect' = KeyIntersect(f)
    /\ drag_subtractive' = KeySubtract(f)
    /\ drag_xor' = KeyXor(f)
    /\ drag_additive' = KeyAdd(f)
    /\ drag_origin_win' = p
    /\ drag_rect_win' = MkRect(p.x, p.y, p.x + 1, p.y + 1)
    /\ drag_prev_sel' = GetSelection(items)
    /\ down_sel' = GetSelection(items)
    /\ pending_click' = FALSE
    /\ pending_index' = -1
    /\ pending_flags' = NoFlags
    /\ NoCommit("Adopt", 0)
    /\ UNCHANGED << items, zoom_i, anchor_index, when_selecting >>

\* A hysteresis that any move of the pointer crosses.
CrossedByAnyMove(o, p) == p # o

\* MouseMove, the hysteresis: the pointer is more than 2 px from the origin
\* of the drag on either axis.
Crossed(o, p) == Abs(p.x - o.x) > 2 \/ Abs(p.y - o.y) > 2

\* A live update that lets a held Alt subtract under a stored intersect.
LiveFlagsSubtractFirst(f) ==
    LET sub   == drag_subtractive \/ KeySubtract(f)
        inter == drag_intersect \/ KeyIntersect(f)
        xr    == ~inter /\ ~sub /\ (drag_xor \/ KeyXor(f))
        add   == ~inter /\ ~sub /\ ~xr /\ (drag_additive \/ KeyAdd(f))
    IN  [inter |-> inter, sub |-> sub, xr |-> xr, add |-> add]

\* MouseMove while dragging with keys f: the effective flags it hands to
\* ApplyMarqueeSelection, the stored mode combined with the current keys.
LiveFlags(f) ==
    LET inter == drag_intersect \/ KeyIntersect(f)
        sub   == ~inter /\ (drag_subtractive \/ KeySubtract(f))
        xr    == ~inter /\ ~sub /\ (drag_xor \/ KeyXor(f))
        add   == ~inter /\ ~sub /\ ~xr /\ (drag_additive \/ KeyAdd(f))
    IN  [inter |-> inter, sub |-> sub, xr |-> xr, add |-> add]

\* MouseMove with the button held: the rubber band follows the pointer.
GalleryMouseMove(p, f) ==
    /\ GalleryStep
    /\ mouse_down
    /\ LET rc    == MkRect(Min(drag_origin_win.x, p.x), Min(drag_origin_win.y, p.y),
                           Max(drag_origin_win.x, p.x) + 1,
                           Max(drag_origin_win.y, p.y) + 1)
           cross == Crossed(drag_origin_win, p)
           live  == LiveFlags(f)
       IN  /\ drag_rect_win' = rc
           /\ dragging' = (dragging \/ cross)
           /\ pending_click' = IF ~dragging /\ cross THEN FALSE ELSE pending_click
           /\ IF dragging \/ cross
              THEN ApplyMarqueeSelection("MouseMove", 0, rc, drag_prev_sel,
                                         live.add, live.sub, live.inter, live.xr)
              ELSE NoCommit("MouseMove", 0) /\ items' = items
    /\ UNCHANGED << zoom_i, anchor_index, mouse_down, drag_additive,
                    drag_subtractive, drag_intersect, drag_xor, pending_index,
                    pending_flags, drag_origin_win, drag_prev_sel, when_selecting,
                    down_sel >>

GalleryLeftUp ==
    /\ GalleryStep
    /\ mouse_down
    /\ IF dragging
       THEN /\ ApplyMarqueeSelection("LeftUp", 0, drag_rect_win, drag_prev_sel,
                                     drag_additive, drag_subtractive,
                                     drag_intersect, drag_xor)
            /\ anchor_index' = anchor_index
       ELSE IF pending_click
       THEN /\ CommitSelection("LeftUp", 0, "Click",
                               ClickNext(GetSelection(items), pending_index,
                                         pending_flags, anchor_index))
            /\ anchor_index' = IF pending_flags.shift /\ anchor_index >= 0
                               THEN anchor_index ELSE pending_index
       ELSE /\ NoCommit("LeftUp", 0)
            /\ UNCHANGED << items, anchor_index >>
    /\ dragging' = FALSE
    /\ pending_click' = FALSE
    /\ pending_index' = -1
    /\ pending_flags' = NoFlags
    /\ mouse_down' = FALSE
    /\ UNCHANGED << zoom_i, drag_additive, drag_subtractive, drag_intersect,
                    drag_xor, drag_origin_win, drag_rect_win, drag_prev_sel,
                    when_selecting, down_sel >>

\* SetZoomIndex(zi) called by operation o.
ZoomTo(o, zi) ==
    /\ zoom_i' = ClampInt(zi, 0, ZoomStepCount - 1)
    /\ gev' = GEv(o, zi, zoom_i, GetSelection(items), 0, "", << >>, FALSE, 0,
                  ZoomNotified(zoom_i, ClampInt(zi, 0, ZoomStepCount - 1)))
    /\ UNCHANGED << items, anchor_index, mouse_down, dragging, drag_additive,
                    drag_subtractive, drag_intersect, drag_xor, pending_click,
                    pending_index, pending_flags, drag_origin_win, drag_rect_win,
                    drag_prev_sel, when_selecting, down_sel >>

SetZoomIndex(zi) == GalleryStep /\ ZoomTo("SetZoomIndex", zi)

\* MouseWheel with Ctrl held: one zoom step up or down.
GalleryMouseWheel(zdelta) ==
    GalleryStep /\ ZoomTo("MouseWheel", zoom_i + (IF zdelta > 0 THEN 1 ELSE -1))

ClearSelection ==
    /\ GalleryStep
    /\ items' = [ i \in 1..Len(items) |-> [items[i] EXCEPT !.selected = FALSE] ]
    /\ gev' = GEv("ClearSelection", 0, zoom_i, GetSelection(items), 0, "", << >>,
                  FALSE, 1, << >>)
    /\ UNCHANGED << zoom_i, anchor_index, mouse_down, dragging, drag_additive,
                    drag_subtractive, drag_intersect, drag_xor, pending_click,
                    pending_index, pending_flags, drag_origin_win, drag_rect_win,
                    drag_prev_sel, when_selecting, down_sel >>

\* GalleryCtrl::Clear.
GalleryClear ==
    /\ GalleryStep
    /\ items' = << >>
    /\ anchor_index' = -1
    /\ NoCommit("Clear", 0)
    /\ UNCHANGED << zoom_i, mouse_down, dragging, drag_additive,
                    drag_subtractive, drag_intersect, drag_xor, pending_click,
                    pending_index, pending_flags, drag_origin_win, drag_rect_win,
                    drag_prev_sel, when_selecting, down_sel >>

\* AddRandom(n) of the demo: n calls of GalleryCtrl::Add.
AddRandom(n) ==
    /\ GalleryStep
    /\ Len(items) + n <= MaxItems
    /\ items' = items \o NewItems(n)
    /\ NoCommit("Add", n)
    /\ UNCHANGED << zoom_i, anchor_index, mouse_down, dragging, drag_additive,
                    drag_subtractive, drag_intersect, drag_xor, pending_click,
                    pending_index, pending_flags, drag_origin_win, drag_rect_win,
                    drag_prev_sel, when_selecting, down_sel >>

\* The host installs or removes a WhenSelecting gate.
SetWhenSelecting(b) ==
    /\ GalleryStep
    /\ when_selecting # b
    /\ when_selecting' = b
    /\ NoCommit("SetWhenSelecting", 0)
    /\ UNCHANGED << items, zoom_i, anchor_index, mouse_down, dragging,
                    drag_additive, drag_subtractive, drag_intersect, drag_xor,
                    pending_click, pending_index, pending_flags, drag_origin_win,
                    drag_rect_win, drag_prev_sel, down_sel >>

\* The pointer gestures on the gallery, with or without a gate.
GalleryNext ==
    \/ \E p \in GalleryPixels, f \in Mods : GalleryLeftDown(p, f)
    \/ \E p \in GalleryPixels : GalleryHover(p)
    \/ \E p \in GalleryPixels, f \in Mods : GalleryAdopt(p, f)
    \/ \E p \in GalleryPixels, f \in Mods : GalleryMouseMove(p, f)
    \/ GalleryLeftUp
    \/ ClearSelection
    \/ \E b \in BOOLEAN : SetWhenSelecting(b)

GallerySpec == Init /\ [][GalleryNext]_vars

\* The operations of the host on the gallery and the Ctrl+wheel zoom.
HostNext ==
    \/ \E zi \in ZoomRequests : SetZoomIndex(zi)
    \/ \E zdelta \in {-120, 120} : GalleryMouseWheel(zdelta)
    \/ ClearSelection
    \/ GalleryClear
    \/ \E n \in 1..MaxItems : AddRandom(n)

HostSpec == Init /\ [][HostNext]_vars

\* The clicks and drags of the demo, whose host may empty and refill the
\* gallery at any time, a press being held or not. The pixels are inside
\* tile 0, 2 px right and 1 px below the first, inside tile 2, and in the
\* empty lower right.
\* The keys are those a click reads, Ctrl and Shift, and Alt alone; they
\* are released before the pointer moves.
ClickPixels == { Pt(20, 20), Pt(22, 21), Pt(160, 20), Pt(500, 300) }
ClickMods ==
    { NoFlags, Flags(TRUE, FALSE, FALSE), Flags(FALSE, TRUE, FALSE),
      Flags(TRUE, TRUE, FALSE), Flags(FALSE, FALSE, TRUE) }
ClickGestures ==
    \/ \E p \in ClickPixels, f \in ClickMods : GalleryLeftDown(p, f)
    \/ \E p \in ClickPixels : GalleryMouseMove(p, NoFlags)
    \/ GalleryLeftUp
    \/ GalleryClear
    \/ \E n \in 1..MaxItems : AddRandom(n)

ClickSpec == Init /\ [][ClickGestures]_vars

\* The marquee drags under every combination of keys, at the press, when a
\* drag is adopted, and changed while the pointer moves.
ModeGestures ==
    \/ \E p \in GalleryPixels, f \in AllMods : GalleryLeftDown(p, f)
    \/ \E p \in GalleryPixels, f \in AllMods : GalleryAdopt(p, f)
    \/ \E p \in GalleryPixels, f \in AllMods : GalleryMouseMove(p, f)
    \/ GalleryLeftUp

ModeSpec == Init /\ [][ModeGestures]_vars

\* ================================================================ claims
Idle == ~drawing /\ ~moving /\ drag_vertex = -1

\* C1: the selection index is none (-1) or an index of the document.
C1_SelectionInRange == selected = -1 \/ (0 <= selected /\ selected < Len(shapes))

\* C2: no operation invoked while selected >= count accesses the shape list
\* outside 0..count-1.
C2_OutOfRangeSelectionIsSafe ==
    [][ (selected >= Len(shapes) /\ ~fault) => ~fault' ]_vars

\* The 0-based indices of the shapes whose pick region covers pixel p.
Covering(sh, p) == { i \in 0..(Len(sh) - 1) : Contains(PickBox(sh[i + 1]), p) }
SetMax(S) == CHOOSE m \in S : \A n \in S : n <= m
TopHit(sh, p) == IF Covering(sh, p) = {} THEN -1 ELSE SetMax(Covering(sh, p))

\* C3: after a pointer-down with the select tool the selection is the
\* highest document index among the shapes whose pick region covers the
\* pointer pixel, and none if no shape covers it.
C3_TopmostWins ==
    (ev.op = "LeftDown" /\ tool = "Cursor") => selected = TopHit(shapes, ev.p)

\* Two shapes of different kinds cover the pixel and the upper one was taken.
C3_Witness ==
    /\ ev.op = "LeftDown" /\ tool = "Cursor"
    /\ Cardinality(Covering(shapes, ev.p)) >= 2
    /\ selected = Len(shapes) - 1
    /\ shapes[1].type # shapes[2].type

Corner(r, i) ==
    CASE i = 0 -> Pt(r.left, r.top)
      [] i = 1 -> Pt(r.right, r.top)
      [] i = 2 -> Pt(r.right, r.bottom)
      [] OTHER -> Pt(r.left, r.bottom)

\* C4: with the select tool and a rectangle selected (its corners further
\* apart than the handle size), a pointer-down exactly on corner handle i
\* keeps the rectangle selected and starts a drag of handle i, not a move.
C4_HandlePrecedence ==
    [][ \A i \in 0..3 :
          ( /\ tool = "Cursor"
            /\ Valid(shapes, selected)
            /\ shapes[selected + 1].type = "Rect"
            /\ RectPx(shapes[selected + 1]).right - RectPx(shapes[selected + 1]).left > 2 * HandlePx
            /\ RectPx(shapes[selected + 1]).bottom - RectPx(shapes[selected + 1]).top > 2 * HandlePx
            /\ ev'.op = "LeftDown"
            /\ ev'.p = Corner(RectPx(shapes[selected + 1]), i) )
          => (selected' = selected /\ drag_vertex' = i /\ ~moving') ]_vars

\* C5: a pointer-down with the select tool that selects a shape and hits
\* none of its handles starts a move of that shape.
C5_SelectStartsMove ==
    ( /\ ev.op = "LeftDown" /\ tool = "Cursor"
      /\ Valid(shapes, selected)
      /\ HitVertex(shapes, selected, ev.p, HandlePx) < 0 )
    => moving

\* The new shape has kind k, style st and zero-size geometry at pixel p.
ZeroShapeAt(s, k, st, p) ==
    /\ s.type = k
    /\ s.style = st
    /\ CASE k = "Rect" -> s.x = NX(p.x) /\ s.y = NY(p.y) /\ s.w = 0 /\ s.h = 0
         [] k = "Circle" -> s.cx = NX(p.x) /\ s.cy = NY(p.y) /\ s.r = <<0, 0>>
         [] k = "Line" -> s.p1 = Pt(NX(p.x), NY(p.y)) /\ s.p2 = s.p1
         [] OTHER -> s.p1 = Pt(NX(p.x), NY(p.y)) /\ s.p2 = s.p1 /\ s.p3 = s.p1

\* This step appended exactly one shape for the pointer-down at ev'.p.
AppendedOne ==
    /\ Len(shapes') = Len(shapes) + 1
    /\ SubSeq(shapes', 1, Len(shapes)) = shapes
    /\ ZeroShapeAt(shapes'[Len(shapes')], tool, defaultStyle, ev'.p)
    /\ selected' = Len(shapes') - 1
    /\ drawing'

\* C6 as stated: every pointer-down in Idle with a create tool appends
\* exactly one zero-size shape of the tool's kind with the default style,
\* selects it and starts drawing, leaving the other shapes alone.
C6_CreateAppendsAlways ==
    [][ (ev'.op = "LeftDown" /\ tool \in Kinds /\ Idle) => AppendedOne ]_vars

\* C6 amended: the same for a pointer-down inside the work area; a
\* pointer-down outside it changes neither the document nor the selection.
C6_CreateAppendsInside ==
    [][ (ev'.op = "LeftDown" /\ tool \in Kinds /\ Idle) =>
            IF Contains(GetInsetRect, ev'.p)
            THEN AppendedOne
            ELSE shapes' = shapes /\ selected' = selected /\ drawing' = drawing ]_vars

\* A create pointer-down has added a shape on top of a loaded document,
\* with a default style that is no longer the built-in one.
C6_Witness ==
    /\ ev.op = "LeftDown" /\ ev.mc = 1 /\ tool \in Kinds
    /\ Len(shapes) >= 2
    /\ defaultStyle # DefaultStyle
    /\ shapes[Len(shapes)].style = defaultStyle
    /\ selected = Len(shapes) - 1
    /\ drawing

\* C7: pointer-up leaves the controller idle, and a gesture that created or
\* edited has notified "model changed" exactly once when it ends.
C7_OneNotificationPerGesture ==
    ev.op = "LeftUp" =>
        /\ Idle
        /\ gest.kind \in {"create", "edit"} => gest.mc = 1

\* C8: once the capture was lost, and until the next pointer-down, the
\* controller is idle.
C8_CaptureLossResets == gest.lost => Idle

\* C9: a pointer-down or a command that changes the selection index
\* notifies "selection changed".
C9_SelectionChangeNotified ==
    [][ (ev'.op \in {"LeftDown", "Command"} /\ selected' # selected)
            => ev'.sc >= 1 ]_vars

\* The outcome C10 states for a command whose no-op condition is noop.
OnceOrNothing(noop) ==
    IF noop
    THEN shapes' = shapes /\ selected' = selected /\ ev'.mc = 0 /\ ev'.sc = 0
    ELSE ev'.mc = 1

\* C10: Delete, Duplicate, LayerUp and LayerDown notify "model changed"
\* once when they act, and change and notify nothing when there is no valid
\* selection, or LayerUp is on the topmost, or LayerDown on the bottom shape.
C10_EditOpsNotifyOnceOrNothing ==
    [][ /\ OnDelete => OnceOrNothing(~Valid(shapes, selected))
        /\ OnDuplicate => OnceOrNothing(~Valid(shapes, selected))
        /\ OnLayerUp =>
             OnceOrNothing(~Valid(shapes, selected) \/ selected = Len(shapes) - 1)
        /\ (OnLayerDown \/ OnLayerDownFault) =>
             OnceOrNothing(~Valid(shapes, selected) \/ selected = 0) ]_vars

\* The kinds and ids of the document, back to front.
Order(sh) == [i \in 1..Len(sh) |-> << sh[i].type, sh[i].id >>]

\* C11: pointer gestures with the select tool, pointer-moves, pointer-up,
\* FlipSelection and style changes keep the number, kinds and order of the
\* shapes, and a create pointer-down only appends one shape at the end.
C11_OrderOnlyByExplicitOps ==
    [][ /\ \/ Order(shapes') = Order(shapes)
           \/ ~( \/ \E p \in Pixels : LeftDownCursor(p) \/ MouseMove(p) \/ MouseMoveFault(p)
                 \/ LeftUp
                 \/ \E hz \in BOOLEAN : OnFlip(hz)
                 \/ \E e \in StyleEdits : OnStyleChanged(e) )
        /\ \/ /\ Len(shapes') \in {Len(shapes), Len(shapes) + 1}
              /\ SubSeq(Order(shapes'), 1, Len(shapes)) = Order(shapes)
           \/ ~(\E p \in Pixels : LeftDownCreate(p) \/ LeftDownOutside(p)) ]_vars

\* A body-drag has moved the selected shape of a document of two shapes
\* away from its last snapshot, below another shape.
C11_Witness ==
    /\ ev.op = "MouseMove" /\ moving
    /\ Len(shapes) >= 2
    /\ selected = 0
    /\ MakeJson(shapes) # hist[hipos + 1]

\* The members MakeJson writes agree between two shapes.
SameShape(a, b) ==
    /\ a.type = b.type
    /\ a.style = b.style
    /\ \A f \in GeomFields : a[f] = b[f]

\* C12: loading the serialized form of the document gives as many shapes,
\* in the same order, each with the same kind, geometry and style.
C12_JsonRoundTrip ==
    LET d == LoadJson(MakeJson(shapes))
    IN  /\ Len(d) = Len(shapes)
        /\ \A i \in 1..Len(shapes) : SameShape(d[i], shapes[i])

\* A document of two kinds, one shape with an edited style, whose ids the
\* round trip renumbers.
C12_Witness ==
    /\ Len(shapes) >= 2
    /\ shapes[1].type # shapes[2].type
    /\ \E i \in 1..Len(shapes) : shapes[i].style # DefaultStyle
    /\ LoadJson(MakeJson(shapes)) # shapes

\* The rectangle covers no pixel: it was created and never dragged.
ZeroRect(s) == s.type = "Rect" /\ s.w = 0 /\ s.h = 0

\* C13: between gestures, a rectangle with w = h = 0 (created and released
\* at the same pixel) puts no command into the render of the document and
\* no line into the generated code.
C13_DegenerateSuppressed ==
    Idle => \A i \in 1..Len(shapes) :
                ZeroRect(shapes[i]) =>
                    EmitShape(shapes[i]) = << >> /\ CodeShape(shapes[i]) = << >>

\* C14: during a body-drag the shape a pointer-move to p leaves is the one
\* it would leave after any other pointer-move q had come first, with the
\* snapping of the gesture: the position follows the last pointer only.
C14_MoveAccumulation ==
    [][ \A p \in Pixels :
          (MouseMove(p) /\ EditBranch /\ moving) =>
             \A q \in Pixels :
                shapes'[selected + 1] =
                   MoveShape(MoveShape(shapes[selected + 1], q, snap, grab_nx, grab_ny),
                             p, snap, grab_nx, grab_ny) ]_vars

\* A line or a triangle, whose points move by deltas, has been dragged away
\* from its snapshot with snapping off.
C14_Witness ==
    /\ ev.op = "MouseMove" /\ moving /\ captured /\ ~snap
    /\ Valid(shapes, selected)
    /\ shapes[selected + 1].type \in {"Line", "Triangle"}
    /\ MakeJson(shapes) # hist[hipos + 1]

IsComment(c) == c[1] = "//"
IsBeginEnd(c) == c[1] \in {"Begin", "End"}

\* Every Begin is followed by one End before the next Begin.
Balanced(cmds) ==
    LET be == SelectSeq(cmds, IsBeginEnd)
    IN  /\ Len(be) % 2 = 0
        /\ \A j \in 1..Len(be) : be[j][1] = IF j % 2 = 1 THEN "Begin" ELSE "End"

KindLabel(k) == IF k = "Rect" THEN "Rectangle" ELSE k

\* The fragment headings of a document whose shape i has k[i] passes.
RECURSIVE HeadingsFrom(_, _, _)
HeadingsFrom(sh, k, i) ==
    IF i > Len(sh) THEN << >>
    ELSE [j \in 1..k[i] |-> <<"//", KindLabel(sh[i].type)>>] \o HeadingsFrom(sh, k, i + 1)

\* C15: the generated code is one wrapper procedure round the fragments;
\* the fragments come in document order, one or two passes per shape; and
\* Begin and End alternate, in the code and in the render.
C15_CodeInOrderAndBalanced ==
    LET code == RefreshCode(shapes)
        body == SubSeq(code, 2, Len(code) - 1)
    IN  /\ code[1] = <<"static void">> /\ code[Len(code)] = <<"}">>
        /\ \A j \in 1..Len(body) : body[j][1] \notin {"static void", "}"}
        /\ \E k \in [1..Len(shapes) -> {1, 2}] :
              SelectSeq(body, IsComment) = HeadingsFrom(shapes, k, 1)
        /\ Balanced(body)
        /\ Balanced(RenderFrom(shapes, 1))

\* Two shapes of different kinds, one of them with an outline pass.
C15_Witness ==
    /\ Len(shapes) >= 2
    /\ shapes[1].type # shapes[2].type
    /\ \E i \in 1..Len(shapes) :
          shapes[i].style.outlineEnable /\ shapes[i].style.outlineWidth > 0
    /\ Len(SelectSeq(RefreshCode(shapes), IsComment)) > Len(shapes)

\* The place of a style command in the order opacity, dash, fill-rule,
\* fill, stroke.
Rank(c) ==
    CASE c[1] = "Opacity" -> 1 [] c[1] = "Dash" -> 2 [] c[1] = "EvenOdd" -> 3
      [] c[1] = "Fill" -> 4 [] c[1] = "Stroke" -> 5 [] OTHER -> 0

InStyleOrder(cmds) ==
    \A a, b \in 1..Len(cmds) :
        (a < b /\ Rank(cmds[a]) > 0 /\ Rank(cmds[b]) > 0) => Rank(cmds[a]) < Rank(cmds[b])

\* C16: in the main pass of every shape, in the render and in the code,
\* the style commands come in the order opacity, dash, fill-rule, fill,
\* stroke.
C16_StyleOrder ==
    \A i \in 1..Len(shapes) :
        /\ InStyleOrder(StylePass(shapes[i].style, TRUE, shapes[i].type = "Line"))
        /\ InStyleOrder(emit_style(shapes[i].style, TRUE, shapes[i].type = "Line"))

IsBegin(c) == c[1] = "Begin"
Passes(cmds) == Len(SelectSeq(cmds, IsBegin))

\* The passes of a shape as C17 states them: pass(m) is the main pass for
\* m = TRUE and the outline pass for m = FALSE.
PassesAsStated(s, pass(_)) ==
    IF ~s.style.outlineEnable THEN pass(TRUE)
    ELSE IF s.style.outlineOutside THEN pass(FALSE) \o pass(TRUE)
    ELSE pass(TRUE) \o pass(FALSE)

\* C17: a shape with the outline enabled gets one outline pass with its
\* path re-emitted, before the main pass if outlineOutside and after it
\* otherwise; a shape without gets none; and the render and the generated
\* code hold the same number of passes.
C17_OutlinePasses ==
    \A i \in 1..Len(shapes) :
        LET s == shapes[i]
            rp(m) == EmitPass(s, m)
            cp(m) == EmitPath(s) \o emit_style(s.style, m, s.type = "Line")
        IN  /\ EmitShape(s) = PassesAsStated(s, rp)
            /\ CodeShape(s) = PassesAsStated(s, cp)
            /\ Passes(EmitShape(s)) = Passes(CodeShape(s))

\* The lengths a dash spec of the model spells.
DashValues(spec) ==
    CASE spec = "" -> << >>
      [] spec = "5 5" -> << 5, 5 >>
      [] spec = "2 4" -> << 2, 4 >>
      [] spec = "5,-3,0,2" -> << 5, -3, 0, 2 >>
      [] OTHER -> << 5, -3 >>

IsPositive(v) == v > 0
IsDash(c) == c[1] = "Dash"

\* The strictly positive lengths, or solid if fewer than two are left.
Sanitized(vals) ==
    LET pos == SelectSeq(vals, IsPositive)
    IN  IF Len(pos) < 2 THEN << >> ELSE pos

\* The dash lengths a pass applies: those of its Dash command, if any.
DashApplied(cmds) ==
    LET d == SelectSeq(cmds, IsDash)
    IN  IF Len(d) = 0 THEN << >> ELSE DashValues(d[1][2])

\* C18: the dash the render and the code apply to a shape is its dash spec
\* filtered to the strictly positive lengths, and solid if fewer than two
\* remain.
C18_DashSanitized ==
    \A i \in 1..Len(shapes) :
        LET s == shapes[i]
        IN  /\ DashApplied(StylePass(s.style, TRUE, s.type = "Line"))
                  = Sanitized(DashValues(s.style.dash))
            /\ DashApplied(emit_style(s.style, TRUE, s.type = "Line"))
                  = Sanitized(DashValues(s.style.dash))

\* C19: Paint, run while no pointer gesture is in progress, changes neither
\* the document nor the selection index nor the interaction flags.
C19_PaintIsPure ==
    [][ (Paint /\ ~captured) =>
            /\ shapes' = shapes
            /\ selected' = selected
            /\ drawing' = drawing /\ moving' = moving /\ drag_vertex' = drag_vertex ]_vars

\* Every id of the document is below n.
AllIdsBelow(sh, n) == \A j \in 1..Len(sh) : sh[j].id < n

\* C20: the shape a create pointer-down appends and the copy that
\* DuplicateSelection inserts get an id above every id of the document, and
\* the ids of the document stay pairwise distinct.
C20_IdsIncrease ==
    [][ /\ (\E p \in Pixels : LeftDownCreate(p))
            => AllIdsBelow(shapes, shapes'[Len(shapes')].id)
        /\ (OnDuplicate /\ Valid(shapes, selected))
            => AllIdsBelow(shapes, shapes'[selected + 2].id)
        /\ ((\E p \in Pixels : LeftDownCreate(p)) \/ OnDuplicate \/ OnDelete
              \/ OnLayerUp \/ OnLayerDown)
            => \A a, b \in 1..Len(shapes') : a # b => shapes'[a].id # shapes'[b].id ]_vars

\* The multiples of step from origin nearest to v.
Nearest(v, origin, step) ==
    LET G == { origin + k * step : k \in (-(MaxOff + 2))..(MaxOff + 2) }
    IN  { g \in G : \A h \in G : Abs(g - v) <= Abs(h - v) }

\* C21: Snap1D(v, origin, step) is a multiple of step from origin nearest to
\* v, for v on either side of origin, so it is at most step/2 away from v.
C21_SnapNearest ==
    probe.fn = "Snap1D" =>
        /\ probe.out \in Nearest(probe.args[1], probe.args[2], probe.args[3])
        /\ 2 * Abs(probe.out - probe.args[1]) <= probe.args[3]

\* C29: a pixel column or row mapped to a normalized coordinate and back
\* is the same pixel, on either side of the work area's left and top edge.
C29_MapperRoundTrip ==
    probe.fn \in {"X", "Y"} => probe.out = probe.args[2]

\* The normalized position of corner k (0..3 = TL, TR, BR, BL) of rectangle s.
NCorner(s, k) ==
    CASE k = 0 -> Pt(s.x, s.y)
      [] k = 1 -> Pt(s.x + s.w, s.y)
      [] k = 2 -> Pt(s.x + s.w, s.y + s.h)
      [] OTHER -> Pt(s.x, s.y + s.h)

\* A pointer-move of a drag of a corner handle of the selected rectangle.
RectHandleMove ==
    /\ ev'.op = "MouseMove"
    /\ EditBranch /\ ~moving
    /\ shapes[selected + 1].type = "Rect"

\* C24: a pointer-move of a drag of corner handle k of a rectangle puts
\* corner k at the (snapped) pointer q, on pixel q when q is in the work
\* area, and leaves the normalized position of the diagonally opposite
\* corner as it was.
C24_CornerEdit ==
    [][ RectHandleMove =>
          \E p \in GesturePixels :
             LET q == IF snap THEN SnapPt(p) ELSE p
                 k == drag_vertex
                 s == shapes[selected + 1]
                 t == shapes'[selected + 1]
             IN  /\ NCorner(t, k) = Pt(NX(q.x), NY(q.y))
                 /\ Contains(GetInsetRect, q) => PxPt(NCorner(t, k)) = q
                 /\ NCorner(t, (k + 2) % 4) = NCorner(s, (k + 2) % 4) ]_vars

\* The bottom-left handle of the loaded rectangle was dragged beyond its
\* bottom-right corner; the top-right corner is where the file put it.
C24_Witness ==
    /\ ev.op = "MouseMove" /\ drag_vertex = 3 /\ Valid(shapes, selected)
    /\ shapes[selected + 1].type = "Rect"
    /\ NCorner(shapes[selected + 1], 3) = Pt(NX(130), NY(130))
    /\ NCorner(shapes[selected + 1], 1) = Pt(NX(108), NY(70))

\* The pixel footprint of rectangle s with negative width and height
\* normalized, and the pixels strictly inside a pixel rectangle.
Footprint(s) ==
    LET r == RectPx(s)
    IN  MkRect(Min(r.left, r.right), Min(r.top, r.bottom),
               Max(r.left, r.right), Max(r.top, r.bottom))
StrictlyInside(r, p) ==
    r.left < p.x /\ p.x < r.right /\ r.top < p.y /\ p.y < r.bottom

\* C25: a pointer-down with the select tool at a pixel strictly inside the
\* normalized footprint of a rectangle that no upper shape covers selects
\* that rectangle and starts a move or a handle drag, whatever the signs of
\* its stored width and height.
C25_NegativeRectHit ==
    (ev.op = "LeftDown" /\ tool = "Cursor") =>
        \A i \in 0..(Len(shapes) - 1) :
            ( /\ shapes[i + 1].type = "Rect"
              /\ StrictlyInside(Footprint(shapes[i + 1]), ev.p)
              /\ \A j \in (i + 1)..(Len(shapes) - 1) :
                    ~Contains(PickBox(shapes[j + 1]), ev.p) )
            => (selected = i /\ (moving \/ drag_vertex >= 0))

\* C26: after a pointer-move of a create drag or of a radius-handle drag of
\* a circle, the pixel radius Rr(r) is within one pixel of the distance
\* between the centre pixel and the (snapped) pointer pixel; r holds the
\* Sub-fold pixel offsets of the pointer from the centre.
C26_RadiusFollowsPointer ==
    ( /\ ev.op = "MouseMove" /\ Valid(shapes, selected)
      /\ shapes[selected + 1].type = "Circle"
      /\ drawing \/ (tool = "Cursor" /\ ~moving /\ drag_vertex >= 0) )
    => LET r  == shapes[selected + 1].r
           d2 == r[1] * r[1] + r[2] * r[2]
           n  == Rr(r)
       IN  /\ d2 <= Sub * Sub * (n + 1) * (n + 1)
           /\ n >= 1 => Sub * Sub * (n - 1) * (n - 1) <= d2

\* Pixel m is farther than t/2 from the segment a-b (t twice the tolerance).
FartherThanHalf(m, a, b, t) ==
    LET dx  == b.x - a.x
        dy  == b.y - a.y
        ex  == m.x - a.x
        ey  == m.y - a.y
        dot == ex * dx + ey * dy
        l2  == dx * dx + dy * dy
        crs == ex * dy - ey * dx
    IN  IF l2 = 0 \/ dot <= 0 THEN 4 * (ex * ex + ey * ey) > t * t
        ELSE IF dot >= l2
        THEN 4 * ((m.x - b.x) * (m.x - b.x) + (m.y - b.y) * (m.y - b.y)) > t * t
        ELSE 4 * crs * crs > t * t * l2

\* C27: a pointer-down with the select tool at a pixel farther from the
\* segment of a line than max(6, strokeWidth/2 + 4) pixels does not take
\* that line, also when the pixel is inside the segment's bounding box.
C27_LineHitByDistance ==
    (ev.op = "LeftDown" /\ tool = "Cursor") =>
        \A i \in 0..(Len(shapes) - 1) :
            ( /\ shapes[i + 1].type = "Line"
              /\ FartherThanHalf(ev.p, PxPt(shapes[i + 1].p1), PxPt(shapes[i + 1].p2),
                                 Max(12, shapes[i + 1].style.strokeWidth + 8)) )
            => (selected # i /\ ~HitBody(shapes, i, ev.p))

\* What a translation of shape s leaves as it is: everything but its
\* position, with the second point of a line and the second and third of a
\* triangle taken relative to p1.
Rigid(s) ==
    [ id |-> s.id, type |-> s.type, style |-> s.style,
      w |-> s.w, h |-> s.h, r |-> s.r,
      d2 |-> Pt(s.p2.x - s.p1.x, s.p2.y - s.p1.y),
      d3 |-> IF s.type = "Triangle"
             THEN Pt(s.p3.x - s.p1.x, s.p3.y - s.p1.y) ELSE Pt(0, 0) ]

\* C28: a pointer-move of a body drag changes only the position of the
\* selected shape: its w, h, r, p2 - p1 and p3 - p1 stay, and every other
\* shape of the document stays as it is.
C28_BodyDragIsRigid ==
    [][ (ev'.op = "MouseMove" /\ EditBranch /\ moving) =>
          /\ Len(shapes') = Len(shapes)
          /\ Rigid(shapes'[selected + 1]) = Rigid(shapes[selected + 1])
          /\ \A i \in 1..Len(shapes) : i # selected + 1 => shapes'[i] = shapes[i]
      ]_vars

\* A triangle, alone in the document, has been moved: its first point is
\* no longer where the file put it.
C28_Witness ==
    /\ ev.op = "MouseMove" /\ moving /\ Valid(shapes, selected)
    /\ Len(shapes) = 1
    /\ shapes[selected + 1].type = "Triangle"
    /\ shapes[selected + 1].p1 # Pt(NX(90), NY(60))

\* The elements of a vector and the indices of the selected items, as sets.
Elems(v) == { v[i] : i \in 1..Len(v) }
Selected(it) == { i \in 0..(Len(it) - 1) : it[i + 1].selected }

\* C22: an operation that proposes a selection to the gate and is refused
\* changes no selected flag and does not call WhenSelection; one that is
\* let through, or finds no gate, leaves exactly the proposed indices in
\* 0..count-1 selected and calls WhenSelection once.
C22_SelectionVeto ==
    gev.commits = 1 =>
        IF gev.vetoed
        THEN Selected(items) = Elems(gev.before) /\ gev.ws = 0
        ELSE /\ Selected(items) =
                   { v \in Elems(gev.proposed) : 0 <= v /\ v < Len(items) }
             /\ gev.ws = 1

\* The gate refused a marquee update that would have changed a non-empty
\* selection.
C22_Witness ==
    /\ gev.op = "MouseMove" /\ gev.commits = 1 /\ gev.vetoed
    /\ gev.before # << >>
    /\ Elems(gev.proposed) # Elems(gev.before)

\* C23: the zoom index is always in 0..4; SetZoomIndex(zi) and a Ctrl+wheel
\* step leave it at zi clamped to 0..4 and call WhenZoom, once and with the
\* new index, exactly when that differs from the index before; no other
\* operation changes the index or calls WhenZoom.
C23_ZoomClamped ==
    /\ zoom_i \in 0..4
    /\ gev.op = "MouseWheel" => Abs(gev.arg - gev.zb) = 1
    /\ IF gev.op \in {"SetZoomIndex", "MouseWheel"}
       THEN /\ zoom_i = (IF gev.arg < 0 THEN 0 ELSE IF gev.arg > 4 THEN 4 ELSE gev.arg)
            /\ gev.wz = (IF zoom_i # gev.zb THEN << zoom_i >> ELSE << >>)
       ELSE zoom_i = gev.zb /\ gev.wz = << >>

\* A Ctrl+wheel step up at the largest zoom step: clamped, nothing called.
C23_Witness ==
    /\ gev.op = "MouseWheel" /\ gev.zb = 4 /\ gev.arg = 5
    /\ zoom_i = 4 /\ gev.wz = << >>

\* The tiles that share a pixel with the marquee as it is now: the pixel
\* columns and the pixel rows of tile and marquee overlap.
TilesUnderMarquee ==
    LET m  == drag_rect_win
        tw == ZoomSteps[zoom_i + 1]
        th == ZoomSteps[zoom_i + 1] + label_h
    IN  { i \in 0..(Len(items) - 1) :
            LET x == pad + (i % Cols(zoom_i)) * (tw + pad)
                y == pad + (i \div Cols(zoom_i)) * (th + pad)
            IN  /\ Max(x, Min(m.left, m.right)) < Min(x + tw, Max(m.left, m.right))
                /\ Max(y, Min(m.top, m.bottom)) < Min(y + th, Max(m.top, m.bottom)) }

\* C30: every marquee update and the release propose the combination of
\* the selection at pointer-down (B) with the tiles under the marquee as
\* it is now (H), whatever the marquee covered before: Intersect B and H,
\* Subtract B less H, Xor their symmetric difference, Add their union,
\* Replace H; no index is proposed twice.
C30_MarqueeFromBaseline ==
    (gev.commits = 1 /\ gev.mode \in {"Intersect", "Subtract", "Xor", "Add", "Replace"}) =>
        LET B == Elems(down_sel)
            H == TilesUnderMarquee
        IN  /\ Len(gev.proposed) = Cardinality(Elems(gev.proposed))
            /\ Elems(gev.proposed) =
                  CASE gev.mode = "Intersect" -> B \cap H
                    [] gev.mode = "Subtract" -> B \ H
                    [] gev.mode = "Xor" -> (B \ H) \cup (H \ B)
                    [] gev.mode = "Add" -> B \cup H
                    [] OTHER -> H

\* An Intersect marquee over a part of a selection of two or more items.
C30_Witness ==
    /\ gev.op = "MouseMove" /\ gev.commits = 1 /\ gev.mode = "Intersect"
    /\ Len(down_sel) >= 2
    /\ gev.proposed # << >> /\ gev.proposed # down_sel

\* C32: releasing the button at the end of a marquee drag proposes exactly
\* the selection proposed by the last MouseMove of that drag, whatever the
\* modifier keys did after the pointer went down.
C32_ReleaseCommitsPreview ==
    [][ (gev.op = "MouseMove" /\ gev.commits = 1 /\ dragging /\ gev'.op = "LeftUp")
            => (gev'.commits = 1 /\ gev'.proposed = gev.proposed) ]_vars

\* C37: the selected set changes only in an operation that consulted the
\* WhenSelecting gate, when one is installed, and was let through, and every
\* change of the selected set is notified by WhenSelection.
C37_SelectionGate ==
    GetSelection(items) # gev.before
        => /\ when_selecting => (gev.commits >= 1 /\ ~gev.vetoed)
           /\ gev.ws >= 1


\* C38: the history is never empty and 0 <= hipos < |hist|; every operation
\* that changes the history is a PushHistory, which keeps the snapshots up to
\* hipos, drops the later ones, appends one and leaves hipos on it, so that
\* Redo then changes nothing; Undo at hipos = 0 and Redo at hipos = |hist| - 1
\* change neither the document nor the history.
C38_HistoryInvariant ==
    /\ [](Len(hist) >= 1 /\ 0 <= hipos /\ hipos < Len(hist))
    /\ [][ /\ hist' # hist
              => /\ Len(hist') = hipos + 2
                 /\ SubSeq(hist', 1, hipos + 1) = SubSeq(hist, 1, hipos + 1)
                 /\ hipos' = Len(hist') - 1
           /\ (OnUndo /\ hipos = 0) => UNCHANGED << shapes, hist, hipos >>
           /\ (OnRedo /\ hipos = Len(hist) - 1) => UNCHANGED << shapes, hist, hipos >> ]_vars

\* Undo has walked a history of several snapshots back to its first one,
\* where a further Undo finds hipos = 0 and a PushHistory drops the rest.
C38_Witness ==
    /\ Len(hist) >= 3 /\ hipos = 0
    /\ shapes = LoadJson(hist[1])

\* C39: whenever no gesture is in progress the snapshot hist[hipos] is the
\* serialization of the current document, so that Undo followed by Redo
\* brings the document back, style changes made through the panel included.
C39_SnapshotIsDocument ==
    (~captured /\ ~drawing /\ ~moving /\ drag_vertex < 0 /\ ~halted)
        => hist[hipos + 1] = MakeJson(shapes)


\* The number of flags set among the four of a marquee mode, and the place
\* of the mode in the precedence Replace < Add < XOR < Subtract < Intersect.
FlagCount(add, sub, inter, xr) ==
    (IF add THEN 1 ELSE 0) + (IF sub THEN 1 ELSE 0)
        + (IF inter THEN 1 ELSE 0) + (IF xr THEN 1 ELSE 0)
ModeRank(m) ==
    CASE m = "Intersect" -> 4 [] m = "Subtract" -> 3 [] m = "Xor" -> 2
      [] m = "Add" -> 1 [] OTHER -> 0

\* The mode the keys of a pointer-down ask for.
ModeOfKeys(f) ==
    IF f.ctrl /\ f.alt THEN "Intersect"
    ELSE IF f.alt THEN "Subtract"
    ELSE IF f.ctrl /\ ~f.shift /\ ctrl_marquee_xor THEN "Xor"
    ELSE IF f.shift \/ f.ctrl THEN "Add"
    ELSE "Replace"

Reach(rc) == Max(rc.right - rc.left - 1, rc.bottom - rc.top - 1)

\* The modes a marquee commit may name.
MarqueeModes == {"Intersect", "Subtract", "Xor", "Add", "Replace"}

\* C33: a press on a tile changes no selection and leaves a click pending;
\* a move of more than 2 px from the press point on either axis cancels the
\* pending click, nothing brings it back before the release, and the release
\* then commits a marquee selection; a move within 2 px keeps the click
\* pending and the selection unchanged, and the release then commits the
\* click, once; a press on whitespace with no key held commits the empty
\* selection at once if something is selected, and with any key held, or
\* nothing selected, commits nothing.
C33_PendingClick ==
    [][ /\ (gev'.op = "LeftDown" /\ Len(items) >= 1
              /\ Contains(RectC(pad, pad, ZoomSteps[zoom_i + 1],
                                ZoomSteps[zoom_i + 1] + label_h), drag_origin_win'))
           => /\ pending_click' /\ pending_index' = 0 /\ ~dragging'
              /\ gev'.commits = 0 /\ items' = items
        /\ (gev'.op = "LeftDown" /\ pending_click')
           => (gev'.commits = 0 /\ items' = items)
        /\ (gev'.op = "LeftDown" /\ ~pending_click')
           => IF FlagCount(drag_additive', drag_subtractive', drag_intersect',
                           drag_xor') = 0 /\ GetSelection(items) # << >>
              THEN /\ gev'.commits = 1 /\ gev'.proposed = << >>
                   /\ ~gev'.vetoed => GetSelection(items') = << >>
              ELSE gev'.commits = 0 /\ items' = items
        /\ (gev'.op = "MouseMove" /\ Reach(drag_rect_win') > 2)
           => /\ dragging' /\ ~pending_click'
              /\ gev'.commits = 1 /\ gev'.mode \in MarqueeModes
        /\ (gev'.op = "MouseMove" /\ Reach(drag_rect_win') <= 2 /\ pending_click)
           => /\ pending_click' /\ ~dragging'
              /\ gev'.commits = 0 /\ items' = items
        /\ (dragging /\ gev'.op # "LeftUp") => (dragging' /\ ~pending_click')
        /\ (pending_click /\ gev'.op \notin {"LeftUp", "MouseMove"})
           => (pending_click' /\ ~dragging' /\ pending_index' = pending_index)
        /\ (gev'.op = "LeftUp" /\ dragging)
           => (gev'.commits = 1 /\ gev'.mode \in MarqueeModes)
        /\ (gev'.op = "LeftUp" /\ ~dragging /\ pending_click)
           => (gev'.commits = 1 /\ gev'.mode = "Click") ]_vars

\* A press on tile 0 was released as a click after the pointer had moved
\* 2 px right and 1 px down.
C33_Witness ==
    /\ gev.op = "LeftUp" /\ gev.mode = "Click" /\ gev.commits = 1
    /\ drag_origin_win = Pt(20, 20)
    /\ drag_rect_win = MkRect(20, 20, 23, 22)
    /\ GetSelection(items) = << 0 >>


\* C34: when the release commits a pending click made with Ctrl and without
\* Shift, the selected flag of the item at the clicked index is inverted and
\* the flag of every other item is unchanged; when it commits a click made
\* with neither Ctrl nor Shift, the item at the clicked index is selected
\* and no other; in both cases the anchor becomes the clicked index.
C34_CtrlAndPlainClick ==
    [][ (gev'.op = "LeftUp" /\ ~dragging /\ pending_click /\ ~pending_flags.shift
            /\ ~gev'.vetoed)
        => /\ Len(items') = Len(items)
           /\ anchor_index' = pending_index
           /\ \A k \in 1..Len(items) :
                items'[k].selected =
                    IF pending_flags.ctrl
                    THEN (IF k - 1 = pending_index THEN ~items[k].selected
                          ELSE items[k].selected)
                    ELSE k - 1 = pending_index ]_vars

\* Items 0, 1 and 2 were selected and a click on tile 0 has taken item 0
\* out of the selection, leaving the two others in it.
C34_Witness ==
    /\ gev.op = "LeftUp" /\ gev.mode = "Click" /\ gev.before = << 0, 1, 2 >>
    /\ GetSelection(items) = << 1, 2 >>
    /\ anchor_index = 0


\* The indices from a to b, ascending.
Range(a, b) == [ k \in 1..(b - a + 1) |-> a + k - 1 ]

\* C35: when the release commits a pending click made with Shift and an
\* anchor is set, the proposed selection is the run of indices from the
\* lower to the higher of anchor and clicked index, every one of them the
\* index of an item, the selection becomes that run and the anchor stays;
\* with no anchor, and Ctrl not held, the click selects the item at the
\* clicked index and no other, and the anchor becomes the clicked index.
C35_ShiftClickRange ==
    [][ (gev'.op = "LeftUp" /\ ~dragging /\ pending_click /\ pending_flags.shift)
        => IF anchor_index >= 0
           THEN LET run == Range(Min(anchor_index, pending_index),
                                 Max(anchor_index, pending_index))
                IN  /\ gev'.proposed = run
                    /\ \A k \in 1..Len(run) : run[k] >= 0 /\ run[k] < Len(items)
                    /\ ~gev'.vetoed => GetSelection(items') = run
                    /\ anchor_index' = anchor_index
           ELSE ~pending_flags.ctrl
                => /\ anchor_index' = pending_index
                   /\ ~gev'.vetoed =>
                         \A k \in 1..Len(items) :
                             items'[k].selected = (k - 1 = pending_index) ]_vars


\* C36: in every state dragging implies mouse_down, pending_click implies
\* mouse_down and a pending_index that is the index of an item, pending_click
\* and dragging are not both true, and after a LeftUp mouse_down, dragging
\* and pending_click are false and pending_index is -1.
C36_GestureState ==
    /\ dragging => mouse_down
    /\ pending_click
          => (mouse_down /\ pending_index >= 0 /\ pending_index < Len(items))
    /\ ~(pending_click /\ dragging)
    /\ gev.op = "LeftUp"
          => (~mouse_down /\ ~dragging /\ ~pending_click /\ pending_index = -1)

====
